---- MODULE Spec2Model ----
(***************************************************************************)
(* Meta-protocol negotiation, code-generation handshake and application    *)
(* frame demultiplexing of one session between two nodes.                  *)
(*                                                                         *)
(* "alice" dials (SimpleNegotiationNode.connect_to_did_with_negotiation),  *)
(* "bob" listens (SimpleNegotiationNode._new_session_callback).  Each node *)
(* runs two coroutines on one event loop: the orchestrator (pc) and the    *)
(* MessageReceiverTask (rpc).  A step of the model is the code between two *)
(* suspension points (await of the LLM, of a send, of an event, of the     *)
(* session's receive_message, of the app handler).                         *)
(***************************************************************************)
EXTENDS Integers, Sequences, FiniteSets, TLC

\* ------------------------------------------------------------------ bounds

\* Highest local round an LLM answer of NEGOTIATING may lead to, with the LLMs
\* choosing among all of Docs.
MaxRound == 5

\* The same, in the runs that go past max_negotiation_rounds, where the LLMs
\* write one document only.
DeepRound == 12

\* ------------------------------------------------------- program constants

max_negotiation_rounds == 10

META == 0
APPLICATION == 1
NATURAL == 2
VERIFICATION == 3

NEGOTIATING == "negotiating"
ACCEPTED == "accepted"
REJECTED == "rejected"

REQUESTER == "requester"
PROVIDER == "provider"

\* ------------------------------------------------------------------ values

Nodes == {"alice", "bob"}

Peer(n) == IF n = "alice" THEN "bob" ELSE "alice"

\* Protocol documents an LLM may write.  "" is the empty document.
Docs == {"docA", "docB"}

NoMessage == [header |-> 0, action |-> "none", sequenceId |-> 0,
              candidateProtocols |-> "", modificationSummary |-> "",
              status |-> "", id |-> 0]

NegotiationResult(st, cp, ms) ==
    [status |-> st, candidate_protocol |-> cp, modification_summary |-> ms]

NoResult == NegotiationResult("", "", "")

NegotiationHistoryEntry(r, cp, ms) ==
    [round |-> r, candidate_protocols |-> cp, modification_summary |-> ms]

\* A return value that has not been produced yet.
Pending == <<"pending">>


\* ------------------------------------------------------------------- state

VARIABLES
    live,                         \* nodes that run this implementation
    llm_docs,                     \* documents the LLMs write in this run
    round_bound,                  \* MaxRound or DeepRound
    env_bound,                    \* how many frames of each kind a remote peer sends
    hdr,                          \* a header byte: its type, as emitted, as received
    capability_info_history,      \* ProtocolNegotiator.capability_info_history
    disk,                         \* the directories under protocol_code_path
    clock,                        \* datetime.now() in milliseconds
    gen,                          \* the ProtocolCodeGenerator of each negotiation
    requester_protocols,          \* AppProtocols.requester_protocols
    provider_protocols,           \* AppProtocols.provider_protocols
    tampered,                     \* files changed on disk behind the generator
    pc,                           \* orchestrator coroutine position
    role,                         \* ProtocolNegotiator.role
    negotiation_round,            \* ProtocolNegotiator.negotiation_round
    negotiation_history,          \* ProtocolNegotiator.negotiation_history
    negotiation_messages,         \* MetaProtocol.negotiation_messages
    negotiation_messages_event,   \* MetaProtocol.negotiation_messages_event
    data,                         \* message popped in _process_negotiation_messages
    result,                       \* result of evaluate_protocol_proposal
    proc_ret,                     \* return of _process_negotiation_messages
    timed_out,                    \* the negotiation wait timed out
    wire,                         \* frames in flight to each node, in order
    sent,                         \* frames each node has sent, in order
    code_generation_messages,     \* MetaProtocol.code_generation_messages
    code_generation_messages_event,
    cg_ret,                       \* return of code_generated(): "True", "False"
    cg_msg,                       \* frame wait_for_code_generation returned on
    code_generation_ok,           \* what ProtocolCodeGenerator.generate returned
    neg_ret,                      \* return of negotiate_protocol / wait_remote_negotiation
    node_ret,                     \* outcome of connect_to_did_with_negotiation /
                                  \* _new_session_callback
    registry,                     \* AppProtocols: hashes with loaded classes
    app_protocol_handler,         \* MessageReceiverTask.app_protocol_handler is set
    app_messages_queue,           \* MessageReceiverTask.app_messages_queue
    handled,                      \* frames passed to handle_message, in order
    drained,                      \* of those, the ones popped from the queue
    taken_unbound,                \* APPLICATION frames taken with no handler set
    taken,                        \* what receive_message returned to the receiver
    rpc,                          \* receive_message_task position
    session_open,                 \* SimpleNodeSession not closed
    env_count                     \* frames the environment has sent so far

negVars == <<role, negotiation_round, negotiation_history>>
queueVars == <<negotiation_messages, negotiation_messages_event>>
bundleVars == <<disk, clock, gen, requester_protocols, provider_protocols, tampered>>
envVars == <<live, llm_docs, round_bound, env_bound, hdr, capability_info_history,
             bundleVars>>
cgVars == <<code_generation_messages, code_generation_messages_event>>
cgRetVars == <<cg_ret, cg_msg>>
bindVars == <<registry, app_protocol_handler, app_messages_queue, handled, drained>>
retVars == <<neg_ret, node_ret, code_generation_ok>>
vars == <<live, llm_docs, round_bound, env_bound, hdr, capability_info_history,
          disk, clock, gen, requester_protocols, provider_protocols, tampered, pc, role, negotiation_round, negotiation_history,
          negotiation_messages, negotiation_messages_event, data, result,
          proc_ret, timed_out, wire, sent, code_generation_messages,
          code_generation_messages_event, cg_ret, cg_msg, code_generation_ok,
          neg_ret, node_ret, registry, app_protocol_handler, app_messages_queue,
          handled, drained, taken_unbound, taken, rpc, session_open, env_count>>

\* ------------------------------------------------------------ wire framing

\* An encoder that puts the type one bit too low.
encode_protocol_header_shift5(protocol_type) == (protocol_type * 32) % 256

\* MetaProtocol._encode_protocol_header: the type in the top 2 bits of a byte.
encode_protocol_header(protocol_type) == (protocol_type * 64) % 256

\* message[0] >> 6
decode_protocol_header(header_byte) == header_byte \div 64

\* The header byte of a frame of type protocol_type as the sender emits it
\* and as the receiver reads it when the peer or the transport has set the
\* 6 reserved bits to reserved: message[0] >> 6 in receive_message_task and
\* data[0] >> 6 in handle_meta_data.
Header(protocol_type, reserved) ==
    [protocol_type |-> protocol_type,
     header_byte |-> encode_protocol_header(protocol_type),
     received |-> encode_protocol_header(protocol_type) + reserved,
     decoded |-> decode_protocol_header(encode_protocol_header(protocol_type) + reserved)]

\* MetaProtocol._create_protocol_negotiation_message followed by _send_message:
\* an absent modificationSummary is "", which is what the receiver's
\* data.get("modificationSummary", "") reads.
create_protocol_negotiation_message(sequence_id, candidate_protocols, modification_summary, st) ==
    [header |-> encode_protocol_header(META),
     action |-> "protocolNegotiation",
     sequenceId |-> sequence_id,
     candidateProtocols |-> candidate_protocols,
     modificationSummary |-> modification_summary,
     status |-> st,
     id |-> 0]

\* MetaProtocol._create_code_generation_message followed by _send_message.
create_code_generation_message(success) ==
    [header |-> encode_protocol_header(META),
     action |-> "codeGeneration",
     sequenceId |-> 0,
     candidateProtocols |-> "",
     modificationSummary |-> "",
     status |-> IF success THEN "generated" ELSE "error",
     id |-> 0]

\* A frame of the application protocol: its header byte and an identity.
ApplicationFrame(i) ==
    [header |-> encode_protocol_header(APPLICATION),
     action |-> "application",
     sequenceId |-> 0,
     candidateProtocols |-> "",
     modificationSummary |-> "",
     status |-> "",
     id |-> i]

\* A frame whose first byte carries protocol_type, neither META nor
\* APPLICATION.
OtherFrame(protocol_type, i) ==
    [header |-> encode_protocol_header(protocol_type),
     action |-> "other",
     sequenceId |-> 0,
     candidateProtocols |-> "",
     modificationSummary |-> "",
     status |-> "",
     id |-> i]

\* A META frame whose body json.loads or the UTF-8 decoding rejects.
UndecodableFrame ==
    [header |-> encode_protocol_header(META),
     action |-> "undecodable",
     sequenceId |-> 0,
     candidateProtocols |-> "",
     modificationSummary |-> "",
     status |-> "",
     id |-> 0]

\* The None that SimpleNodeSession.receive_message returns when
\* _decrypt_message gave '' (key id mismatch, decryption failure).
NoneMessage ==
    [header |-> 0,
     action |-> "None",
     sequenceId |-> 0,
     candidateProtocols |-> "",
     modificationSummary |-> "",
     status |-> "",
     id |-> 0]

\* SimpleNodeSession.send_message as used by MetaProtocol.send_data: the frame
\* is on its way to the peer; it is also logged in sent.
SendFrame(n, frame) ==
    /\ sent' = [sent EXCEPT ![n] = Append(@, frame)]
    /\ wire' = IF Peer(n) \in live
               THEN [wire EXCEPT ![Peer(n)] = Append(@, frame)]
               ELSE wire

\* ------------------------------------------------------------ AppProtocols

\* The bundle ProtocolCodeGenerator.generate wrote for document doc, and the
\* hash of its protocol_document.md.
ModulePath(doc) == <<"module", doc>>

ProtocolHash(doc) == <<"sha256", doc>>

None == <<"None">>

\* A load_protocol that finds a loadable bundle at every path, the empty
\* path of a failed negotiation included.
load_protocol_any_path(protocol_dir, bundle) == ProtocolHash("docA")

\* AppProtocols.load_protocol: the hash of the bundle at protocol_dir, or None
\* when meta_data.json is missing (the path "" of a failed negotiation) or
\* the bundle does not verify or load.
load_protocol(protocol_dir, bundle) ==
    IF protocol_dir = "" \/ bundle # "ok"
    THEN None
    ELSE ProtocolHash(protocol_dir[2])

\* The registry after load_protocol.
Loaded(reg, protocol_hash) ==
    IF protocol_hash = None THEN reg ELSE reg \cup {protocol_hash}

\* A lookup that returns a class for every hash, None included.
get_by_hash_always(reg, protocol_hash) == TRUE

\* AppProtocols.get_requester_by_hash / get_provider_by_hash: whether a class
\* is returned (otherwise (None, None)).
get_by_hash(reg, protocol_hash) == protocol_hash \in reg

\* ------------------------------------------------------------- LLM outputs

LLMOutput(k, st, cp, ms) ==
    [kind |-> k, status |-> st, candidate_protocol |-> cp,
     modification_summary |-> ms]

\* What the LLM may answer to generate_initial_protocol: a document, or the
\* call raises.
InitialOutputs ==
    {LLMOutput("text", "", d, "") : d \in llm_docs}
    \cup {LLMOutput("exception", "", "", "")}

\* What the LLM may answer to an evaluation: a JSON verdict (its status may
\* be missing "", unknown, or in capitals), content that is empty or is not
\* JSON, or the call raises.  round is the local round before the
\* evaluation: NEGOTIATING answers stop at round_bound.
EvalOutputs(round) ==
    (IF round + 2 <= round_bound
     THEN {LLMOutput("json", NEGOTIATING, d, "summary") : d \in llm_docs}
     ELSE {})
    \cup {LLMOutput("json", ACCEPTED, "docB", ""),
          LLMOutput("json", "ACCEPTED", "", ""),
          LLMOutput("json", REJECTED, "", "summary"),
          LLMOutput("json", "", "docA", "summary"),
          LLMOutput("json", "maybe", "docA", "summary"),
          LLMOutput("empty", "", "", ""),
          LLMOutput("unparsable", "", "", ""),
          LLMOutput("exception", "", "", "")}

\* ------------------------------------------------------ ProtocolNegotiator

\* str.lower() on the status strings that occur.
Lower(s) ==
    CASE s = "ACCEPTED" -> "accepted"
      [] s = "NEGOTIATING" -> "negotiating"
      [] s = "REJECTED" -> "rejected"
      [] OTHER -> s

\* A parser that goes on negotiating when the status is missing or unknown.
parse_negotiation_result_lenient(result_json) ==
    NegotiationResult(IF Lower(result_json.status) \in {NEGOTIATING, ACCEPTED, REJECTED}
                      THEN Lower(result_json.status)
                      ELSE NEGOTIATING,
                      result_json.candidate_protocol,
                      result_json.modification_summary)

\* ProtocolNegotiator._parse_negotiation_result
parse_negotiation_result(result_json) ==
    IF result_json.status = ""
    THEN NegotiationResult(REJECTED, result_json.candidate_protocol,
                           result_json.modification_summary)
    ELSE IF Lower(result_json.status) \in {NEGOTIATING, ACCEPTED, REJECTED}
         THEN NegotiationResult(Lower(result_json.status),
                                result_json.candidate_protocol,
                                result_json.modification_summary)
         ELSE NegotiationResult(REJECTED, "", "Error parsing result")

\* An evaluation that keeps the candidate_protocol the LLM wrote next to its
\* ACCEPTED verdict.
AcceptedKeepsLLMCandidate(parsed, candidate_protocols) == parsed

\* The result of an evaluation whose verdict was parsed: an ACCEPTED verdict
\* carries the counterparty's document, whatever the LLM wrote.
AcceptedCarriesReceived(parsed, candidate_protocols) ==
    IF parsed.status = ACCEPTED
    THEN [parsed EXCEPT !.candidate_protocol = candidate_protocols]
    ELSE parsed

\* The negotiator after an evaluation: its result, round and history.
Evaluation(res, round, history) ==
    [result |-> res, negotiation_round |-> round, negotiation_history |-> history]

\* The tail shared by _evaluate_as_provider and _evaluate_as_requester once
\* the round is advanced and the verdict is JSON.
EvaluateVerdict(out, candidate_protocols, round, history) ==
    LET res == AcceptedCarriesReceived(parse_negotiation_result(out),
                                       candidate_protocols)
    IN Evaluation(res, round,
                  IF res.status = NEGOTIATING
                  THEN Append(history,
                              NegotiationHistoryEntry(round, res.candidate_protocol,
                                                      res.modification_summary))
                  ELSE history)

\* An error result that gives the peer no reason.
EvaluationErrorSilent(round, history) ==
    Evaluation(NegotiationResult(REJECTED, "", ""), round, history)

\* The except clause of _evaluate_as_provider / _evaluate_as_requester.
EvaluationError(round, history) ==
    Evaluation(NegotiationResult(REJECTED, "", "Error during evaluation"),
               round, history)

\* ProtocolNegotiator._evaluate_as_requester: json.loads runs before the
\* round is advanced, so content that is not JSON leaves the round alone.
evaluate_as_requester(out, candidate_protocols, round, history) ==
    IF out.kind = "json"
    THEN EvaluateVerdict(out, candidate_protocols, round + 2, history)
    ELSE EvaluationError(round, history)

\* A provider evaluation that advances the round by 1 for each turn.
evaluate_as_provider_step_one(out, candidate_protocols, round, history) ==
    CASE out.kind = "json" ->
            EvaluateVerdict(out, candidate_protocols, round + 1, history)
      [] out.kind = "exception" -> EvaluationError(round, history)
      [] OTHER -> EvaluationError(round + 1, history)

\* ProtocolNegotiator._evaluate_as_provider: the round is advanced as soon as
\* the LLM stops calling tools, before the content is looked at.
evaluate_as_provider(out, candidate_protocols, round, history) ==
    CASE out.kind = "json" ->
            EvaluateVerdict(out, candidate_protocols, round + 2, history)
      [] out.kind = "exception" -> EvaluationError(round, history)
      [] OTHER -> EvaluationError(round + 2, history)

\* An evaluation that refuses every inbound frame that ends the negotiation.
evaluate_terminal_rejecting(negotiation_status, candidate_protocols, history) ==
    NegotiationResult(REJECTED, "", "")

\* ProtocolNegotiator.evaluate_protocol_proposal for an inbound frame whose
\* status is ACCEPTED or REJECTED: no LLM call, round and history untouched.
evaluate_terminal(negotiation_status, candidate_protocols, history) ==
    IF negotiation_status = ACCEPTED
    THEN NegotiationResult(ACCEPTED,
                           IF history # <<>>
                           THEN history[Len(history)].candidate_protocols
                           ELSE candidate_protocols,
                           "")
    ELSE NegotiationResult(REJECTED, "", "")

\* ------------------------------------------------- SimpleNegotiationNode

nodeRest == <<cgVars, cgRetVars, taken_unbound, taken, rpc, env_count>>
negRest == <<retVars, bindVars, nodeRest, session_open>>

\* set_app_protocol_handler has returned.  alice: connect_to_did_with_negotiation
\* returns the RequesterSession and the application calls code_generated(),
\* whose notify_code_generation starts sending.  bob: the ProviderSession goes
\* to new_provider_session_callback, which first asks the LLM for the
\* callback code.
HandlerBound(n) ==
    /\ node_ret' = [node_ret EXCEPT ![n] = "session"]
    /\ IF n = "alice"
       THEN /\ pc' = [pc EXCEPT ![n] = "cg_notify"]
            /\ SendFrame(n, create_code_generation_message(TRUE))
       ELSE /\ pc' = [pc EXCEPT ![n] = "callback_llm"]
            /\ UNCHANGED <<wire, sent>>

\* MessageReceiverTask.set_app_protocol_handler up to its first suspension:
\* the handler is set, and with frames queued the first is popped and
\* handle_message is awaited.
set_app_protocol_handler(n) ==
    /\ app_protocol_handler' = [app_protocol_handler EXCEPT ![n] = TRUE]
    /\ IF app_messages_queue[n] # <<>>
       THEN /\ app_messages_queue' = [app_messages_queue EXCEPT ![n] = Tail(@)]
            /\ handled' = [handled EXCEPT ![n] = Append(@, Head(app_messages_queue[n]))]
            /\ drained' = [drained EXCEPT ![n] = Append(@, Head(app_messages_queue[n]))]
            /\ pc' = [pc EXCEPT ![n] = "drain"]
            /\ UNCHANGED <<node_ret, wire, sent>>
       ELSE /\ UNCHANGED <<app_messages_queue, handled, drained>>
            /\ HandlerBound(n)

\* "load app protocol code" in connect_to_did_with_negotiation (238-243) and
\* _new_session_callback (191-196): load_protocol, the lookup by hash, the
\* class instantiated (a TypeError when the lookup gave None) and bound.
LoadAndBind(n, module_path, bundle) ==
    LET protocol_hash == load_protocol(module_path, bundle)
        reg == Loaded(registry[n], protocol_hash)
    IN /\ registry' = [registry EXCEPT ![n] = reg]
       /\ IF get_by_hash(reg, protocol_hash)
          THEN set_app_protocol_handler(n)
          ELSE /\ node_ret' = [node_ret EXCEPT ![n] = "raised"]
               /\ pc' = [pc EXCEPT ![n] = "done"]
               /\ UNCHANGED <<app_protocol_handler, app_messages_queue, handled,
                              drained, wire, sent>>

\* connect_to_did_with_negotiation returns None when negotiate_protocol
\* failed (233-235); _new_session_callback does not look at success.
ChecksSuccess(n) == n = "alice"

\* A failure path that closes the session before it returns None.
ReturnNoneClosing(n) ==
    /\ node_ret' = [node_ret EXCEPT ![n] = "none"]
    /\ pc' = [pc EXCEPT ![n] = "done"]
    /\ session_open' = [session_open EXCEPT ![n] = FALSE]

\* "if not success: return None" (233-235): an error is logged and None is
\* returned; the session and its receiver are left as they are.
ReturnNone(n) ==
    /\ node_ret' = [node_ret EXCEPT ![n] = "none"]
    /\ pc' = [pc EXCEPT ![n] = "done"]
    /\ UNCHANGED session_open

\* negotiate_protocol / wait_remote_negotiation returned nret to the node.
NegotiationReturned(n, nret, bundle) ==
    /\ neg_ret' = [neg_ret EXCEPT ![n] = nret]
    /\ IF ChecksSuccess(n) /\ ~nret[1]
       THEN /\ ReturnNone(n)
            /\ UNCHANGED <<bindVars, wire, sent>>
       ELSE /\ LoadAndBind(n, nret[2], bundle)
            /\ UNCHANGED session_open

\* ------------------------------------------------------------ MetaProtocol

\* A return that passes on whatever document the result carries.
ProcessReturnKeepsDocument(res) == <<res.status = ACCEPTED, res.candidate_protocol>>

\* The value _process_negotiation_messages returns once the frame answering
\* result res has been sent (meta_protocol.py 389-408).
ProcessReturn(res) ==
    IF res.status = ACCEPTED
    THEN <<TRUE, res.candidate_protocol>>
    ELSE <<FALSE, "">>

\* evaluate_protocol_proposal returned res: the answering frame is built with
\* the local round and its send starts (meta_protocol.py 381-407).
SendResult(n, res, round) ==
    /\ result' = [result EXCEPT ![n] = res]
    /\ pc' = [pc EXCEPT ![n] = "send_result"]
    /\ SendFrame(n, create_protocol_negotiation_message(
                        round, res.candidate_protocol,
                        res.modification_summary, res.status))

\* A loop that takes one frame for each wake-up of the event: after an
\* answer is sent it blocks on the event whatever the queue holds.
ProcessLoopOnePerWakeUp(n, ev) ==
    /\ negotiation_messages_event' = ev
    /\ IF negotiation_messages[n] = <<>> \/ pc[n] # "wait"
       THEN /\ pc' = [pc EXCEPT ![n] = "wait"]
            /\ UNCHANGED <<negotiation_messages, data, result, wire, sent>>
       ELSE LET d == Head(negotiation_messages[n]) IN
            /\ negotiation_messages' =
                   [negotiation_messages EXCEPT ![n] = Tail(@)]
            /\ data' = [data EXCEPT ![n] = d]
            /\ IF d.status \in {ACCEPTED, REJECTED}
               THEN SendResult(n, evaluate_terminal(d.status, d.candidateProtocols,
                                                    negotiation_history[n]),
                               negotiation_round[n])
               ELSE /\ pc' = [pc EXCEPT ![n] = "llm_eval"]
                    /\ UNCHANGED <<result, wire, sent>>

\* A loop whose evaluation rejects a frame with a sequenceId other than the
\* local round + 1 instead of logging it.
ProcessLoopChecksRound(n, ev) ==
    /\ negotiation_messages_event' = ev
    /\ IF negotiation_messages[n] = <<>>
       THEN /\ pc' = [pc EXCEPT ![n] = "wait"]
            /\ UNCHANGED <<negotiation_messages, data, result, wire, sent>>
       ELSE LET d == Head(negotiation_messages[n]) IN
            /\ negotiation_messages' =
                   [negotiation_messages EXCEPT ![n] = Tail(@)]
            /\ data' = [data EXCEPT ![n] = d]
            /\ IF d.sequenceId # negotiation_round[n] + 1
               THEN SendResult(n, NegotiationResult(REJECTED, "", "Invalid round number"),
                               negotiation_round[n])
               ELSE IF d.status \in {ACCEPTED, REJECTED}
                    THEN SendResult(n, evaluate_terminal(d.status, d.candidateProtocols,
                                                         negotiation_history[n]),
                                    negotiation_round[n])
                    ELSE /\ pc' = [pc EXCEPT ![n] = "llm_eval"]
                         /\ UNCHANGED <<result, wire, sent>>

\* The inner loop of _process_negotiation_messages, entered with event value
\* ev: the head of the queue is popped and evaluated; a frame whose status is
\* ACCEPTED or REJECTED is answered without suspending, any other goes to the
\* LLM.  With the queue empty the coroutine blocks on the event.
ProcessLoop(n, ev) ==
    /\ negotiation_messages_event' = ev
    /\ IF negotiation_messages[n] = <<>>
       THEN /\ pc' = [pc EXCEPT ![n] = "wait"]
            /\ UNCHANGED <<negotiation_messages, data, result, wire, sent>>
       ELSE LET d == Head(negotiation_messages[n]) IN
            /\ negotiation_messages' =
                   [negotiation_messages EXCEPT ![n] = Tail(@)]
            /\ data' = [data EXCEPT ![n] = d]
            /\ IF d.status \in {ACCEPTED, REJECTED}
               THEN SendResult(n, evaluate_terminal(d.status, d.candidateProtocols,
                                                    negotiation_history[n]),
                               negotiation_round[n])
               ELSE /\ pc' = [pc EXCEPT ![n] = "llm_eval"]
                    /\ UNCHANGED <<result, wire, sent>>

\* MetaProtocol.negotiate_protocol up to its first suspension: a fresh
\* negotiator, the queue and the event cleared, then
\* generate_initial_protocol sets the role and round 1 and calls the LLM.
NegotiateProtocol(n) ==
    /\ n = "alice"
    /\ n \in live
    /\ pc[n] = "idle"
    /\ role' = [role EXCEPT ![n] = REQUESTER]
    /\ negotiation_round' = [negotiation_round EXCEPT ![n] = 1]
    /\ negotiation_history' = [negotiation_history EXCEPT ![n] = <<>>]
    /\ negotiation_messages' = [negotiation_messages EXCEPT ![n] = <<>>]
    /\ negotiation_messages_event' = [negotiation_messages_event EXCEPT ![n] = FALSE]
    /\ pc' = [pc EXCEPT ![n] = "llm_initial"]
    /\ UNCHANGED <<envVars, data, result, proc_ret, timed_out, wire, sent, negRest>>

\* generate_initial_protocol after the LLM call, then negotiate_protocol
\* builds the first frame and starts sending it.
InitialProtocolGenerated(n, out) ==
    /\ pc[n] = "llm_initial"
    /\ out \in InitialOutputs
    /\ IF out.kind = "text"
       THEN /\ negotiation_history' =
                   [negotiation_history EXCEPT ![n] =
                       Append(@, NegotiationHistoryEntry(negotiation_round[n],
                                                         out.candidate_protocol, ""))]
            /\ SendFrame(n, create_protocol_negotiation_message(
                                negotiation_round[n], out.candidate_protocol,
                                "", NEGOTIATING))
       ELSE /\ UNCHANGED negotiation_history
            /\ SendFrame(n, create_protocol_negotiation_message(
                                negotiation_round[n], "", "", REJECTED))
    /\ pc' = [pc EXCEPT ![n] = "send_initial"]
    /\ UNCHANGED <<envVars, role, negotiation_round, queueVars, data, result,
                   proc_ret, timed_out, negRest>>

\* The first frame is sent: _process_negotiation_messages starts.
InitialSent(n) ==
    /\ pc[n] = "send_initial"
    /\ ProcessLoop(n, negotiation_messages_event)
    /\ UNCHANGED <<envVars, negVars, proc_ret, timed_out, negRest>>

\* MetaProtocol.wait_remote_negotiation up to its first suspension: a fresh
\* negotiator (role PROVIDER, round 0), the queue and the event cleared, and
\* _process_negotiation_messages blocks on the event.
WaitRemoteNegotiation(n) ==
    /\ n = "bob"
    /\ n \in live
    /\ pc[n] = "idle"
    /\ role' = [role EXCEPT ![n] = PROVIDER]
    /\ negotiation_round' = [negotiation_round EXCEPT ![n] = 0]
    /\ negotiation_history' = [negotiation_history EXCEPT ![n] = <<>>]
    /\ negotiation_messages' = [negotiation_messages EXCEPT ![n] = <<>>]
    /\ negotiation_messages_event' = [negotiation_messages_event EXCEPT ![n] = FALSE]
    /\ pc' = [pc EXCEPT ![n] = "wait"]
    /\ UNCHANGED <<envVars, data, result, proc_ret, timed_out, wire, sent, negRest>>

\* negotiation_messages_event.wait() returns: the event is cleared and the
\* queue is processed.
NegotiationWakeUp(n) ==
    /\ pc[n] = "wait"
    /\ negotiation_messages_event[n]
    /\ ProcessLoop(n, [negotiation_messages_event EXCEPT ![n] = FALSE])
    /\ UNCHANGED <<envVars, negVars, proc_ret, timed_out, negRest>>

\* asyncio.TimeoutError in the wait: _process_negotiation_messages returns
\* (False, ""), and so does negotiate_protocol / wait_remote_negotiation.
NegotiationTimeout(n) ==
    /\ pc[n] = "wait"
    /\ ~negotiation_messages_event[n]
    /\ proc_ret' = [proc_ret EXCEPT ![n] = <<FALSE, "">>]
    /\ timed_out' = [timed_out EXCEPT ![n] = TRUE]
    /\ NegotiationReturned(n, <<FALSE, "">>, "none")
    /\ UNCHANGED <<envVars, negVars, queueVars, data, result, code_generation_ok,
                   nodeRest>>

\* Tool calls the provider's LLM makes in one session.
MaxToolCalls == 2

\* ProtocolNegotiator.get_capability_info with callback cb: "none" when no
\* callback is registered, "returns" or "raises" for what the callback does.
get_capability_info(cb) ==
    CASE cb = "none" -> ""
      [] cb = "returns" -> "capability"
      [] OTHER -> "Error getting capability info"

\* The user prompt _evaluate_as_provider builds before its first LLM call
\* (protocol_negotiator.py 471-488) from the frame to evaluate and the
\* negotiator's state.
user_prompt(frame, history, capability_history) ==
    [counterparty_latest_protocol |-> frame.candidateProtocols,
     your_previous_protocol |->
         IF history # <<>> THEN history[Len(history)].candidate_protocols ELSE "",
     counterparty_modification_summary |-> frame.modificationSummary,
     capability_info_history |-> capability_history]

\* A tool call that keeps only the latest capability information.
CapabilityInfoCalledKeepsLatest(n, cb) ==
    /\ pc[n] = "llm_eval"
    /\ role[n] = PROVIDER
    /\ Len(capability_info_history[n]) < MaxToolCalls
    /\ capability_info_history' =
           [capability_info_history EXCEPT ![n] = <<get_capability_info(cb)>>]
    /\ UNCHANGED <<live, llm_docs, round_bound, env_bound, hdr, bundleVars, pc,
                   negVars, queueVars, data, result, proc_ret, timed_out, wire, sent,
                   negRest>>

\* A tool call that counts as a turn of the negotiation: it advances the
\* round.
CapabilityInfoCalledAdvancing(n, cb) ==
    /\ pc[n] = "llm_eval"
    /\ role[n] = PROVIDER
    /\ Len(capability_info_history[n]) < MaxToolCalls
    /\ capability_info_history' =
           [capability_info_history EXCEPT ![n] = Append(@, get_capability_info(cb))]
    /\ negotiation_round' = [negotiation_round EXCEPT ![n] = @ + 2]
    /\ UNCHANGED <<live, llm_docs, round_bound, env_bound, hdr, bundleVars, pc,
                   role, negotiation_history, queueVars, data, result, proc_ret,
                   timed_out, wire, sent, negRest>>

\* The provider's LLM answers with a get_capability_info tool call
\* (protocol_negotiator.py 529-545): the callback's answer, or the error
\* string, is recorded and given to the LLM, and the LLM is called again.
CapabilityInfoCalled(n, cb) ==
    /\ pc[n] = "llm_eval"
    /\ role[n] = PROVIDER
    /\ Len(capability_info_history[n]) < MaxToolCalls
    /\ capability_info_history' =
           [capability_info_history EXCEPT ![n] = Append(@, get_capability_info(cb))]
    /\ UNCHANGED <<live, llm_docs, round_bound, env_bound, hdr, bundleVars, pc,
                   negVars, queueVars, data, result, proc_ret, timed_out, wire, sent,
                   negRest>>

\* The LLM answers the evaluation of data[n]; evaluate_protocol_proposal
\* returns and the answering frame is sent.
ProposalEvaluated(n, out) ==
    /\ pc[n] = "llm_eval"
    /\ out \in EvalOutputs(negotiation_round[n])
    /\ LET e == IF role[n] = PROVIDER
                THEN evaluate_as_provider(out, data[n].candidateProtocols,
                                          negotiation_round[n], negotiation_history[n])
                ELSE evaluate_as_requester(out, data[n].candidateProtocols,
                                           negotiation_round[n], negotiation_history[n])
       IN /\ negotiation_round' = [negotiation_round EXCEPT ![n] = e.negotiation_round]
          /\ negotiation_history' =
                 [negotiation_history EXCEPT ![n] = e.negotiation_history]
          /\ SendResult(n, e.result, e.negotiation_round)
    /\ UNCHANGED <<envVars, role, queueVars, data, proc_ret, timed_out, negRest>>

\* The answering frame is sent.  A NEGOTIATING result goes on with the queue.
\* REJECTED returns (False, "") up to the node.  ACCEPTED returns the document
\* and negotiate_protocol / wait_remote_negotiation starts
\* ProtocolCodeGenerator.generate.
ResultSent(n) ==
    /\ pc[n] = "send_result"
    /\ IF result[n].status = NEGOTIATING
       THEN /\ ProcessLoop(n, negotiation_messages_event)
            /\ UNCHANGED <<proc_ret, retVars, bindVars, session_open>>
       ELSE /\ proc_ret' = [proc_ret EXCEPT ![n] = ProcessReturn(result[n])]
            /\ IF ProcessReturn(result[n])[1]
               THEN /\ pc' = [pc EXCEPT ![n] = "codegen"]
                    /\ UNCHANGED <<queueVars, data, result, wire, sent, retVars,
                                   bindVars, session_open>>
               ELSE /\ NegotiationReturned(n, <<FALSE, "">>, "none")
                    /\ UNCHANGED <<queueVars, data, result, code_generation_ok>>
    /\ UNCHANGED <<envVars, negVars, timed_out, nodeRest>>

\* ProtocolCodeGenerator.generate returns (True, module_path) or (False, None)
\* (meta_protocol.py 189-207, 234-252); bundle says whether the bundle it
\* wrote verifies and loads.
CodeGenerated(n, ok, bundle) ==
    /\ pc[n] = "codegen"
    /\ code_generation_ok' = [code_generation_ok EXCEPT ![n] = IF ok THEN "ok" ELSE "failed"]
    /\ NegotiationReturned(n, IF ok THEN <<TRUE, ModulePath(proc_ret[n][2])>>
                                    ELSE <<FALSE, "">>,
                           bundle)
    /\ UNCHANGED <<envVars, negVars, queueVars, data, result, proc_ret, timed_out,
                   nodeRest>>

\* ------------------------------------------- drain of the buffered frames

orchRest == <<envVars, negVars, queueVars, data, result, proc_ret, timed_out>>

\* handle_message of a drained frame returns (set_app_protocol_handler 40-42):
\* the next buffered frame is popped and handled, or the loop ends.
DrainHandlerReturns(n) ==
    /\ pc[n] = "drain"
    /\ IF app_messages_queue[n] # <<>>
       THEN /\ app_messages_queue' = [app_messages_queue EXCEPT ![n] = Tail(@)]
            /\ handled' = [handled EXCEPT ![n] = Append(@, Head(app_messages_queue[n]))]
            /\ drained' = [drained EXCEPT ![n] = Append(@, Head(app_messages_queue[n]))]
            /\ UNCHANGED <<pc, node_ret, wire, sent>>
       ELSE /\ HandlerBound(n)
            /\ UNCHANGED <<app_messages_queue, handled, drained>>
    /\ UNCHANGED <<orchRest, neg_ret, code_generation_ok, registry,
                   app_protocol_handler, nodeRest, session_open>>

\* handle_message of a drained frame raises: nothing in
\* set_app_protocol_handler or its callers catches, the exception leaves
\* connect_to_did_with_negotiation / _new_session_callback.
DrainHandlerRaises(n) ==
    /\ pc[n] = "drain"
    /\ node_ret' = [node_ret EXCEPT ![n] = "raised"]
    /\ pc' = [pc EXCEPT ![n] = "done"]
    /\ UNCHANGED <<orchRest, wire, sent, neg_ret, code_generation_ok, bindVars,
                   nodeRest, session_open>>

\* ------------------------------------------- code-generation handshake

\* new_provider_session_callback of negotiation_bob.py: the callback code is
\* generated by the LLM and set, then code_generated() starts with
\* notify_code_generation, which always builds the frame with success=True.
CallbackCodeGenerated(n) ==
    /\ pc[n] = "callback_llm"
    /\ pc' = [pc EXCEPT ![n] = "cg_notify"]
    /\ SendFrame(n, create_code_generation_message(TRUE))
    /\ UNCHANGED <<orchRest, retVars, bindVars, nodeRest, session_open>>

\* code_generated() returns ret.  alice goes on generating the code that calls
\* the requester interface, whatever ret is; bob's callback only prints it.
CodeGeneratedReturns(n, ret, message) ==
    /\ cg_ret' = [cg_ret EXCEPT ![n] = IF ret THEN "True" ELSE "False"]
    /\ cg_msg' = [cg_msg EXCEPT ![n] = message]
    /\ pc' = [pc EXCEPT ![n] = IF n = "alice" THEN "interface_llm" ELSE "done"]

\* A wait that clears the event when it is entered and blocks on it without
\* looking at the queue first.
wait_for_code_generation_clearing(n, ev) ==
    IF code_generation_messages[n] = <<>> \/ pc[n] = "cg_notify"
    THEN /\ pc' = [pc EXCEPT ![n] = "cg_wait"]
         /\ code_generation_messages_event' = [ev EXCEPT ![n] = FALSE]
         /\ UNCHANGED <<code_generation_messages, cgRetVars>>
    ELSE /\ code_generation_messages' =
                [code_generation_messages EXCEPT ![n] = Tail(@)]
         /\ code_generation_messages_event' = [ev EXCEPT ![n] = FALSE]
         /\ CodeGeneratedReturns(n, TRUE, Head(code_generation_messages[n]))

\* MetaProtocol.wait_for_code_generation from the top of its loop, entered
\* with event value ev: any queued message whose action is codeGeneration
\* makes it return True; with the queue empty it blocks on the event.
wait_for_code_generation(n, ev) ==
    IF code_generation_messages[n] = <<>>
    THEN /\ pc' = [pc EXCEPT ![n] = "cg_wait"]
         /\ code_generation_messages_event' = ev
         /\ UNCHANGED <<code_generation_messages, cgRetVars>>
    ELSE /\ code_generation_messages' =
                [code_generation_messages EXCEPT ![n] = Tail(@)]
         /\ code_generation_messages_event' = [ev EXCEPT ![n] = FALSE]
         /\ CodeGeneratedReturns(n, TRUE, Head(code_generation_messages[n]))

\* The codeGeneration frame is sent: wait_for_code_generation starts.
NotificationSent(n) ==
    /\ pc[n] = "cg_notify"
    /\ wait_for_code_generation(n, code_generation_messages_event)
    /\ UNCHANGED <<orchRest, wire, sent, retVars, bindVars, taken_unbound, taken, rpc,
                   env_count, session_open>>

\* code_generation_messages_event.wait() returns and the event is cleared.
CodeGenerationWakeUp(n) ==
    /\ pc[n] = "cg_wait"
    /\ code_generation_messages_event[n]
    /\ wait_for_code_generation(
           n, [code_generation_messages_event EXCEPT ![n] = FALSE])
    /\ UNCHANGED <<orchRest, wire, sent, retVars, bindVars, taken_unbound, taken, rpc,
                   env_count, session_open>>

\* asyncio.TimeoutError in wait_for_code_generation: it returns False.
CodeGenerationTimeout(n) ==
    /\ pc[n] = "cg_wait"
    /\ ~code_generation_messages_event[n]
    /\ CodeGeneratedReturns(n, FALSE, NoMessage)
    /\ UNCHANGED <<orchRest, wire, sent, retVars, bindVars, cgVars, taken_unbound, taken,
                   rpc, env_count, session_open>>

\* negotiation_alice.py 88-99: the code calling the requester interface is
\* generated; unless that gave None it is called and the requester instance
\* sends the request, an APPLICATION frame.
InterfaceCodeGenerated(n, ok) ==
    /\ pc[n] = "interface_llm"
    /\ pc' = [pc EXCEPT ![n] = "done"]
    /\ IF ok
       THEN SendFrame(n, ApplicationFrame(0))
       ELSE UNCHANGED <<wire, sent>>
    /\ UNCHANGED <<orchRest, retVars, bindVars, nodeRest, session_open>>

\* SimpleNodeSession.close, called by the application once the orchestrator
\* has finished with the session.
close(n) ==
    /\ pc[n] = "done"
    /\ session_open[n]
    /\ pc' = [pc EXCEPT ![n] = "closed"]
    /\ session_open' = [session_open EXCEPT ![n] = FALSE]
    /\ UNCHANGED <<orchRest, wire, sent, retVars, bindVars, nodeRest>>

\* ------------------------------------------------- MessageReceiverTask

\* MetaProtocol._handle_protocol_negotiation
handle_protocol_negotiation(n, frame) ==
    /\ negotiation_messages' = [negotiation_messages EXCEPT ![n] = Append(@, frame)]
    /\ negotiation_messages_event' = [negotiation_messages_event EXCEPT ![n] = TRUE]

\* MetaProtocol._handle_code_generation
handle_code_generation(n, frame) ==
    /\ code_generation_messages' =
           [code_generation_messages EXCEPT ![n] = Append(@, frame)]
    /\ code_generation_messages_event' =
           [code_generation_messages_event EXCEPT ![n] = TRUE]

\* A handle_meta_data that queues the body for the negotiation without
\* decoding it.
handle_meta_data_undecoded(n, frame) ==
    /\ handle_protocol_negotiation(n, frame)
    /\ UNCHANGED cgVars

\* MetaProtocol.handle_meta_data: a body that does not decode is logged in
\* the except clauses (131-137); otherwise the action of the JSON body
\* selects the queue, and any other action is logged.
handle_meta_data(n, frame) ==
    IF frame.action = "undecodable"
    THEN UNCHANGED <<queueVars, cgVars>>
    ELSE /\ IF frame.action = "protocolNegotiation"
            THEN handle_protocol_negotiation(n, frame)
            ELSE UNCHANGED queueVars
         /\ IF frame.action = "codeGeneration"
            THEN handle_code_generation(n, frame)
            ELSE UNCHANGED cgVars

\* A receiver that appends every frame to the app buffer, whatever its type.
DispatchBuffersAll(n, frame) ==
    /\ taken' = [taken EXCEPT ![n] = Append(@, frame)]
    /\ app_messages_queue' = [app_messages_queue EXCEPT ![n] = Append(@, frame)]
    /\ taken_unbound' = [taken_unbound EXCEPT ![n] = Append(@, frame)]
    /\ UNCHANGED <<queueVars, cgVars, handled, rpc>>

\* One turn of the loop of receive_message_task with the frame that
\* receive_message returned, up to the next suspension: the await of the
\* next frame, or of the bound handler's handle_message.
Dispatch(n, frame) ==
    LET protocol_type == decode_protocol_header(frame.header) IN
    /\ taken' = [taken EXCEPT ![n] = Append(@, frame)]
    /\ IF protocol_type = META
       THEN handle_meta_data(n, frame)
       ELSE UNCHANGED <<queueVars, cgVars>>
    /\ IF protocol_type = APPLICATION
       THEN IF app_protocol_handler[n]
            THEN /\ handled' = [handled EXCEPT ![n] = Append(@, frame)]
                 /\ rpc' = [rpc EXCEPT ![n] = "handling"]
                 /\ UNCHANGED <<app_messages_queue, taken_unbound>>
            ELSE /\ app_messages_queue' =
                        [app_messages_queue EXCEPT ![n] = Append(@, frame)]
                 /\ taken_unbound' = [taken_unbound EXCEPT ![n] = Append(@, frame)]
                 /\ UNCHANGED <<handled, rpc>>
       ELSE UNCHANGED <<handled, rpc, app_messages_queue, taken_unbound>>

\* What a turn of the receiver leaves alone.
recvRest == <<envVars, pc, negVars, data, result, proc_ret, timed_out, sent,
              cgRetVars, retVars, registry, app_protocol_handler, drained,
              session_open>>

\* The receiver is started in connect_to_did_with_negotiation /
\* _new_session_callback and is waiting in receive_message.
Receiving(n) ==
    /\ pc[n] # "idle"
    /\ rpc[n] = "recv"
    /\ session_open[n]

\* receive_message returns the next frame the peer node sent.
ReceiveFromPeer(n) ==
    /\ Receiving(n)
    /\ wire[n] # <<>>
    /\ wire' = [wire EXCEPT ![n] = Tail(@)]
    /\ Dispatch(n, Head(wire[n]))
    /\ UNCHANGED <<recvRest, env_count>>

\* The handler's handle_message returns to the receiver (54): next turn.
ReceiverHandlerReturns(n) ==
    /\ rpc[n] = "handling"
    /\ rpc' = [rpc EXCEPT ![n] = "recv"]
    /\ UNCHANGED <<recvRest, queueVars, cgVars, wire, app_messages_queue, handled,
                   taken_unbound, taken, env_count>>

\* The handler's handle_message raises: the except clauses of
\* receive_message_task are outside its loop (59-63), the task ends.
ReceiverHandlerRaises(n) ==
    /\ rpc[n] = "handling"
    /\ rpc' = [rpc EXCEPT ![n] = "dead"]
    /\ UNCHANGED <<recvRest, queueVars, cgVars, wire, app_messages_queue, handled,
                   taken_unbound, taken, env_count>>

\* The receive task of node n has not ended: it is suspended in
\* receive_message or in the handler's handle_message.
ReceiveTaskRunning(n) == pc[n] # "idle" /\ rpc[n] \in {"recv", "handling"}

\* MessageReceiverTask.cancel, which RequesterSession.__del__ and
\* ProviderSession.__del__ call (94-98, 127-131): Task.cancel() throws
\* CancelledError into the await the task is suspended in, the except clause
\* of receive_message_task logs it (59-60) and the task ends.  On a task that
\* has ended Task.cancel() does nothing.
cancel(n) ==
    /\ node_ret[n] = "session"
    /\ rpc' = [rpc EXCEPT ![n] = IF ReceiveTaskRunning(n) THEN "cancelled" ELSE @]
    /\ UNCHANGED <<recvRest, queueVars, cgVars, wire, app_messages_queue, handled,
                   taken_unbound, taken, env_count>>

\* SimpleNodeSession._start_heartbeat is called in __init__ for a
\* SimpleClientWssWraper, i.e. on the dialing side (45-46); close cancels
\* the heartbeat task and awaits it (75-80).
HeartbeatRunning(n) == n = "alice" /\ pc[n] # "idle" /\ session_open[n]

\* ------------------------------------------------ a remote peer's frames

\* Frames a remote peer may send in the runs where only one node is modelled.
MaxEnvMeta == 2
MaxEnvApp == 3

\* The same in the runs where the remote peer also sends frames that are no
\* well-formed META or APPLICATION frame, and sequence ids no round expects.
MaxOddMeta == 2
MaxOddApp == 1
MaxEnvOdd == 1

\* Frames of a remote peer that are no well-formed META or APPLICATION frame:
\* another protocol type, or a META body that does not decode.
OddFrames ==
    {OtherFrame(t, 1) : t \in {NATURAL, VERIFICATION}} \cup {UndecodableFrame}

\* The sequenceId of the remote peer's next protocolNegotiation frame: the
\* one the local round expects, or 0, which no round expects.
EnvSequenceIds(n) ==
    {negotiation_round[n] + 1} \cup (IF env_bound.odd > 0 THEN {0} ELSE {})

\* The next frame of a remote peer: a protocolNegotiation frame, a
\* codeGeneration frame, its next APPLICATION frame, or one of OddFrames.
EnvFrames(n) ==
    (IF env_count.meta < env_bound.meta
     THEN {create_protocol_negotiation_message(id, d, "", st) :
               id \in EnvSequenceIds(n),
               d \in llm_docs, st \in {NEGOTIATING, ACCEPTED, REJECTED}}
          \cup {create_code_generation_message(b) : b \in BOOLEAN}
     ELSE {})
    \cup (IF env_count.app < env_bound.app
          THEN {ApplicationFrame(env_count.app + 1)}
          ELSE {})
    \cup (IF env_count.odd < env_bound.odd THEN OddFrames ELSE {})

\* The count of the remote peer's frames after frame.
EnvCounted(frame) ==
    IF frame \in OddFrames
    THEN [env_count EXCEPT !.odd = @ + 1]
    ELSE IF decode_protocol_header(frame.header) = META
         THEN [env_count EXCEPT !.meta = @ + 1]
         ELSE [env_count EXCEPT !.app = @ + 1]

\* receive_message returns a frame of the remote peer.
ReceiveFromEnv(n, frame) ==
    /\ Peer(n) \notin live
    /\ Receiving(n)
    /\ frame \in EnvFrames(n)
    /\ env_count' = EnvCounted(frame)
    /\ Dispatch(n, frame)
    /\ UNCHANGED <<recvRest, wire>>

\* receive_message returns None for a frame of the remote peer that does not
\* decrypt: message[0] raises TypeError, which the except clause outside the
\* loop of receive_message_task logs (61-63), and the task ends.
ReceiveUndecryptable(n) ==
    /\ Peer(n) \notin live
    /\ Receiving(n)
    /\ env_count.odd < env_bound.odd
    /\ env_count' = [env_count EXCEPT !.odd = @ + 1]
    /\ taken' = [taken EXCEPT ![n] = Append(@, NoneMessage)]
    /\ rpc' = [rpc EXCEPT ![n] = "dead"]
    /\ UNCHANGED <<recvRest, queueVars, cgVars, wire, app_messages_queue, handled,
                   taken_unbound>>

\* The actions of META frames that handle_meta_data passes to handlers
\* whose body is pass (meta_protocol.py 303-336).
ReservedActions == {"testCasesNegotiation", "fixErrorNegotiation", "naturalLanguageNegotiation"}

\* A well-formed META frame with one of these actions.
ReservedFrame(action) ==
    [header |-> encode_protocol_header(META),
     action |-> action,
     sequenceId |-> 0,
     candidateProtocols |-> "",
     modificationSummary |-> "",
     status |-> "",
     id |-> 0]

\* How many such frames a remote peer sends.
MaxReserved == 1

\* The frames of this kind that node n has taken.
ReservedTaken(n) ==
    Cardinality({i \in DOMAIN taken[n] : taken[n][i].action \in ReservedActions})

\* receive_message returns such a frame of the remote peer.
ReceiveReserved(n, action) ==
    /\ Peer(n) \notin live
    /\ Receiving(n)
    /\ ReservedTaken(n) < MaxReserved
    /\ Dispatch(n, ReservedFrame(action))
    /\ UNCHANGED <<recvRest, wire, env_count>>

\* ------------------------------------- generated bundles and the registry

\* Milliseconds datetime.now() may advance during a run, and files the
\* environment changes behind the generator.
MaxClock == 1
MaxTamper == 1

\* The generators that write under one protocol_code_path.
Gens == {"g1", "g2"}

\* The module name the LLM puts into the description JSON; every LLM
\* suggests the same one.
ModuleName == "mod"

\* output_path / module_name, and the same with the timestamp suffix.
ModuleDir(module_name) == <<module_name>>

TimestampDir(module_name, timestamp) == <<module_name, timestamp>>

Dirs == {ModuleDir(ModuleName)} \cup {TimestampDir(ModuleName, t) : t \in 0..MaxClock}

\* The entries of meta_data.json "files".  "requester" stands for
\* requester.py and requester_description.json, which are written and
\* recorded together, and "provider" likewise.
Keys == {"protocol_document", "requester", "provider"}

\* hashlib.sha256 of a file's content, as recorded in meta_data.json; <<>> is
\* a key that meta_data.json does not list.
Hash(content) == <<"sha256", content>>

NoHash == <<>>

\* A file that does not exist, a file written with an empty code block, a
\* file with a loadable class, and a file changed after it was recorded.
Absent == "absent"

\* A path that does not exist.
NoDir ==
    [exists |-> FALSE,
     files |-> [k \in Keys |-> Absent],
     meta |-> [k \in Keys |-> NoHash]]

\* A complete bundle for document doc.
Bundle(doc) ==
    [exists |-> TRUE,
     files |-> [k \in Keys |-> IF k = "protocol_document" THEN doc ELSE "class"],
     meta |-> [k \in Keys |-> Hash(IF k = "protocol_document" THEN doc ELSE "class")]]

\* A generator that has not been started.
NoGenerator ==
    [pc |-> "idle", protocol_doc |-> "", module_name |-> <<>>, ret |-> Pending]

\* Nothing under protocol_code_path, an empty registry.
EmptyStore ==
    /\ disk = [d \in Dirs |-> NoDir]
    /\ clock = 0
    /\ gen = [g \in Gens |-> NoGenerator]
    /\ requester_protocols = {}
    /\ provider_protocols = {}
    /\ tampered = 0

\* The directory ProtocolCodeGenerator._create_module_structure picks: the
\* module name, or the name with the timestamp when that path exists.
module_dir(dk, module_name, timestamp) ==
    IF dk[ModuleDir(module_name)].exists
    THEN TimestampDir(module_name, timestamp)
    ELSE ModuleDir(module_name)

\* ProtocolCodeGenerator._create_module_structure: mkdir(exist_ok=True), a
\* fresh meta_data.json with no files (_generate_meta_data), then
\* protocol_document.md and its hash (_update_protocol_document).  Files
\* already in the directory stay.
create_module_structure(dk, module_name, timestamp, protocol_doc) ==
    [dk EXCEPT ![module_dir(dk, module_name, timestamp)] =
        [exists |-> TRUE,
         files |-> [@.files EXCEPT !["protocol_document"] = protocol_doc],
         meta |-> [k \in Keys |-> IF k = "protocol_document"
                                  THEN Hash(protocol_doc) ELSE NoHash]]]

\* _write_txt_to_file followed by _update_meta_data_files for key in
\* directory d.  With written FALSE the write raised and neither happened.
write_files(dk, d, key, content, written) ==
    IF written
    THEN [dk EXCEPT ![d].files[key] = content, ![d].meta[key] = Hash(content)]
    ELSE dk

\* What the LLM calls of generate_requester_code / generate_provider_code
\* (requester_generator.py 310-332) may come to: a module name and a code
\* block; a module name and no code block ("" is written); an empty module
\* name; an exception (LLM error, description that is no JSON); a module
\* name and code whose write to disk raises.
CodeOutputs == {"code", "no_code", "no_name", "raises", "write_fails"}

\* The body of ProtocolCodeGenerator.generate_requester_code /
\* generate_provider_code once the LLM calls have come to out: the
\* generator record and the disk afterwards.
generate_code(g, key, out) ==
    IF out \in {"no_name", "raises"}
    THEN [gen |-> gen[g], disk |-> disk]
    ELSE LET created == gen[g].module_name = <<>>
             d == IF created
                  THEN module_dir(disk, ModuleName, clock)
                  ELSE gen[g].module_name
             dk == IF created
                   THEN create_module_structure(disk, ModuleName, clock,
                                                gen[g].protocol_doc)
                   ELSE disk
         IN [gen |-> [gen[g] EXCEPT !.module_name = d],
             disk |-> write_files(dk, d, key,
                                  IF out = "no_code" THEN "" ELSE "class",
                                  out # "write_fails")]

\* What the session model leaves alone in the steps of this section.
sessionVars == <<pc, negVars, queueVars, data, result, proc_ret, timed_out, wire,
                 sent, cgVars, cgRetVars, retVars, bindVars, taken_unbound, taken,
                 rpc, session_open, env_count>>

storeRest == <<live, llm_docs, round_bound, env_bound, hdr, capability_info_history,
               sessionVars>>

\* MetaProtocol.negotiate_protocol / wait_remote_negotiation construct a
\* ProtocolCodeGenerator for the agreed document and call generate(), which
\* awaits the LLM for the requester code.
Generate(g, protocol_doc) ==
    /\ gen[g].pc = "idle"
    /\ gen' = [gen EXCEPT ![g] = [@ EXCEPT !.pc = "requester",
                                            !.protocol_doc = protocol_doc]]
    /\ UNCHANGED <<disk, clock, requester_protocols, provider_protocols,
                   tampered, storeRest>>

\* generate_requester_code after its LLM calls; generate() goes on to await
\* the LLM for the provider code.
RequesterCodeGenerated(g, out) ==
    /\ gen[g].pc = "requester"
    /\ LET r == generate_code(g, "requester", out)
       IN /\ gen' = [gen EXCEPT ![g] = [r.gen EXCEPT !.pc = "provider"]]
          /\ disk' = r.disk
    /\ UNCHANGED <<clock, requester_protocols, provider_protocols,
                   tampered, storeRest>>

\* The return of ProtocolCodeGenerator.generate (code_generator.py 225-228):
\* success whenever a module directory was created.
generate_returns(g, dk) ==
    IF g.module_name # <<>> THEN <<TRUE, g.module_name>> ELSE <<FALSE, None>>

\* generate_provider_code after its LLM calls, and generate() returns.
ProviderCodeGenerated(g, out) ==
    /\ gen[g].pc = "provider"
    /\ LET r == generate_code(g, "provider", out)
       IN /\ gen' = [gen EXCEPT ![g] = [r.gen EXCEPT !.pc = "done",
                                                     !.ret = generate_returns(r.gen, r.disk)]]
          /\ disk' = r.disk
    /\ UNCHANGED <<clock, requester_protocols, provider_protocols,
                   tampered, storeRest>>

\* A millisecond passes.
Tick ==
    /\ clock < MaxClock
    /\ clock' = clock + 1
    /\ UNCHANGED <<disk, gen, requester_protocols, provider_protocols,
                   tampered, storeRest>>

\* Something outside the generator rewrites a file of a bundle.
Tamper(d, key, content) ==
    /\ tampered < MaxTamper
    /\ disk[d].exists
    /\ disk[d].files[key] # content
    /\ disk' = [disk EXCEPT ![d].files[key] = content]
    /\ tampered' = tampered + 1
    /\ UNCHANGED <<clock, gen, requester_protocols, provider_protocols, storeRest>>

\* A verification that accepts every bundle.
verify_protocol_files_trusting(bundle) == TRUE

\* AppProtocols.verify_protocol_files: every file listed in meta_data.json
\* exists and has the recorded hash.
verify_protocol_files(bundle) ==
    \A k \in Keys :
        bundle.meta[k] # NoHash =>
            /\ bundle.files[k] # Absent
            /\ Hash(bundle.files[k]) = bundle.meta[k]

\* RequesterContainer / ProviderContainer for side (protocol_container.py):
\* "raises" when meta_data.json lacks an entry the constructor reads
\* (KeyError), otherwise whether the class loads.
Container(bundle, side) ==
    IF bundle.meta["protocol_document"] = NoHash \/ bundle.meta[side] = NoHash
    THEN "raises"
    ELSE IF bundle.files[side] = "class" THEN "class" ELSE "no_class"

\* dict[protocol_hash] = container; the container keeps its directory and
\* what it read there.
Indexed(index, protocol_hash, d, bundle) ==
    {e \in index : e.protocol_hash # protocol_hash}
        \cup {[protocol_hash |-> protocol_hash, protocol_dir |-> d, bundle |-> bundle]}

\* AppProtocols.load_protocol(d) on registry reg (requester and provider
\* index): the registry afterwards and the value returned.
load_protocol_dir(reg, dk, d) ==
    LET bundle == dk[d]
        protocol_hash == bundle.meta["protocol_document"]
        rc == Container(bundle, "requester")
        pv == Container(bundle, "provider")
    IN IF ~bundle.exists \/ ~verify_protocol_files(bundle) \/ rc = "raises"
       THEN [reg EXCEPT !.ret = None]
       ELSE LET r1 == IF rc = "class"
                      THEN [reg EXCEPT !.requester = Indexed(@, protocol_hash, d, bundle)]
                      ELSE reg
            IN IF pv = "raises"
               THEN [r1 EXCEPT !.ret = None]
               ELSE IF pv = "class"
                    THEN [r1 EXCEPT !.provider = Indexed(@, protocol_hash, d, bundle),
                                    !.ret = protocol_hash]
                    ELSE [r1 EXCEPT !.ret = IF rc = "class" THEN protocol_hash
                                                             ELSE None]

\* The registry as one value.
Registry ==
    [requester |-> requester_protocols, provider |-> provider_protocols, ret |-> None]

\* load_protocol is called with directory d.
LoadProtocol(d) ==
    /\ LET r == load_protocol_dir(Registry, disk, d)
       IN /\ requester_protocols' = r.requester
          /\ provider_protocols' = r.provider
    /\ UNCHANGED <<disk, clock, gen, tampered, storeRest>>

\* load_protocol for each directory of order, one after the other.
RECURSIVE load_all(_, _, _)
load_all(reg, dk, order) ==
    IF order = <<>>
    THEN reg
    ELSE load_all(load_protocol_dir(reg, dk, Head(order)), dk, Tail(order))

\* The orders in which os.listdir may give the directories that exist.
Listings(dk) ==
    LET present == {d \in Dirs : dk[d].exists}
    IN {order \in [1..Cardinality(present) -> present] :
           \A i, j \in DOMAIN order : i # j => order[i] # order[j]}

\* AppProtocols.reload_all_protocols: both indexes are emptied and every
\* directory under the root is loaded, in the order os.listdir gives.
ReloadAllProtocols(order) ==
    /\ order \in Listings(disk)
    /\ LET r == load_all([Registry EXCEPT !.requester = {}, !.provider = {}],
                         disk, order)
       IN /\ requester_protocols' = r.requester
          /\ provider_protocols' = r.provider
    /\ UNCHANGED <<disk, clock, gen, tampered, storeRest>>

\* AppProtocols.get_requester_by_hash / get_provider_by_hash: the directory
\* of the container found, or None for (None, None).
get_requester_by_hash(protocol_hash) ==
    IF \E e \in requester_protocols : e.protocol_hash = protocol_hash
    THEN (CHOOSE e \in requester_protocols : e.protocol_hash = protocol_hash).protocol_dir
    ELSE None

get_provider_by_hash(protocol_hash) ==
    IF \E e \in provider_protocols : e.protocol_hash = protocol_hash
    THEN (CHOOSE e \in provider_protocols : e.protocol_hash = protocol_hash).protocol_dir
    ELSE None

\* ----------------------------------------------------- specifications

\* A session is established; MetaProtocol.__init__, ProtocolNegotiator.__init__
\* and MessageReceiverTask.__init__ have run on each side, AppProtocols holds
\* no bundle yet.
InitSession ==
    /\ pc = [n \in Nodes |-> "idle"]
    /\ role = [n \in Nodes |-> PROVIDER]
    /\ negotiation_round = [n \in Nodes |-> 0]
    /\ negotiation_history = [n \in Nodes |-> <<>>]
    /\ negotiation_messages = [n \in Nodes |-> <<>>]
    /\ negotiation_messages_event = [n \in Nodes |-> FALSE]
    /\ data = [n \in Nodes |-> NoMessage]
    /\ result = [n \in Nodes |-> NoResult]
    /\ proc_ret = [n \in Nodes |-> Pending]
    /\ timed_out = [n \in Nodes |-> FALSE]
    /\ wire = [n \in Nodes |-> <<>>]
    /\ sent = [n \in Nodes |-> <<>>]
    /\ code_generation_messages = [n \in Nodes |-> <<>>]
    /\ code_generation_messages_event = [n \in Nodes |-> FALSE]
    /\ cg_ret = [n \in Nodes |-> "pending"]
    /\ cg_msg = [n \in Nodes |-> NoMessage]
    /\ code_generation_ok = [n \in Nodes |-> "none"]
    /\ neg_ret = [n \in Nodes |-> Pending]
    /\ node_ret = [n \in Nodes |-> "pending"]
    /\ registry = [n \in Nodes |-> {}]
    /\ app_protocol_handler = [n \in Nodes |-> FALSE]
    /\ app_messages_queue = [n \in Nodes |-> <<>>]
    /\ handled = [n \in Nodes |-> <<>>]
    /\ drained = [n \in Nodes |-> <<>>]
    /\ taken_unbound = [n \in Nodes |-> <<>>]
    /\ taken = [n \in Nodes |-> <<>>]
    /\ rpc = [n \in Nodes |-> "recv"]
    /\ session_open = [n \in Nodes |-> TRUE]
    /\ env_count = [meta |-> 0, app |-> 0, odd |-> 0]
    /\ hdr = Header(META, 0)
    /\ capability_info_history = [n \in Nodes |-> <<>>]

\* The same with nothing under protocol_code_path and an empty registry.
InitNode ==
    /\ InitSession
    /\ EmptyStore

\* Both nodes run this code.
Init ==
    /\ live = Nodes
    /\ llm_docs = Docs
    /\ round_bound = MaxRound
    /\ env_bound = [meta |-> 0, app |-> 0, odd |-> 0]
    /\ InitNode

\* Both nodes run this code and the LLMs may go on past
\* max_negotiation_rounds.
InitDeep ==
    /\ live = Nodes
    /\ llm_docs = {"docA"}
    /\ round_bound = DeepRound
    /\ env_bound = [meta |-> 0, app |-> 0, odd |-> 0]
    /\ InitNode

\* One node runs this code against a remote peer.
InitOpen ==
    /\ live \in {{n} : n \in Nodes}
    /\ llm_docs = {"docA"}
    /\ round_bound = MaxRound
    /\ env_bound = [meta |-> MaxEnvMeta, app |-> MaxEnvApp, odd |-> 0]
    /\ InitNode

\* One node runs this code against a remote peer that also sends frames that
\* are no well-formed META or APPLICATION frame.
InitOdd ==
    /\ live \in {{n} : n \in Nodes}
    /\ llm_docs = {"docA"}
    /\ round_bound = MaxRound
    /\ env_bound = [meta |-> MaxOddMeta, app |-> MaxOddApp, odd |-> MaxEnvOdd]
    /\ InitNode

\* The steps of the orchestrator coroutine of a node and of its receiver
\* while it awaits the handler.
NodeStep(n) ==
    \/ NegotiateProtocol(n)
    \/ \E out \in InitialOutputs : InitialProtocolGenerated(n, out)
    \/ InitialSent(n)
    \/ WaitRemoteNegotiation(n)
    \/ NegotiationWakeUp(n)
    \/ NegotiationTimeout(n)
    \/ \E out \in EvalOutputs(negotiation_round[n]) : ProposalEvaluated(n, out)
    \/ ResultSent(n)
    \/ \E ok \in BOOLEAN, bundle \in {"ok", "bad"} : CodeGenerated(n, ok, bundle)
    \/ DrainHandlerReturns(n)
    \/ DrainHandlerRaises(n)
    \/ CallbackCodeGenerated(n)
    \/ NotificationSent(n)
    \/ CodeGenerationWakeUp(n)
    \/ CodeGenerationTimeout(n)
    \/ \E ok \in BOOLEAN : InterfaceCodeGenerated(n, ok)
    \/ close(n)
    \/ ReceiverHandlerReturns(n)
    \/ ReceiverHandlerRaises(n)

Next ==
    \/ \E n \in Nodes : NodeStep(n)
    \/ \E n \in Nodes : ReceiveFromPeer(n)

NextOpen ==
    \/ \E n \in Nodes : NodeStep(n)
    \/ \E n \in Nodes : \E frame \in EnvFrames(n) : ReceiveFromEnv(n, frame)

NextOdd ==
    \/ \E n \in Nodes : NodeStep(n)
    \/ \E n \in Nodes : \E frame \in EnvFrames(n) : ReceiveFromEnv(n, frame)
    \/ \E n \in Nodes : ReceiveUndecryptable(n)

Spec == Init /\ [][Next]_vars

SpecDeep == InitDeep /\ [][Next]_vars

SpecNode == InitOpen /\ [][NextOpen]_vars

SpecOdd == InitOdd /\ [][NextOdd]_vars

\* One node runs this code against a remote peer that also sends META frames
\* with the actions of ReservedActions.
NextReserved ==
    \/ \E n \in Nodes : NodeStep(n)
    \/ \E n \in Nodes : \E frame \in EnvFrames(n) : ReceiveFromEnv(n, frame)
    \/ \E n \in Nodes, action \in ReservedActions : ReceiveReserved(n, action)

InitReserved ==
    /\ live \in {{n} : n \in Nodes}
    /\ llm_docs = {"docA"}
    /\ round_bound = MaxRound
    /\ env_bound = [meta |-> MaxOddMeta, app |-> MaxOddApp, odd |-> 0]
    /\ InitNode

SpecReserved == InitReserved /\ [][NextReserved]_vars

\* One node runs this code against a remote peer whose frames carry any of
\* the documents, whatever this node proposed.
InitAny ==
    /\ live \in {{n} : n \in Nodes}
    /\ llm_docs = Docs
    /\ round_bound = MaxRound
    /\ env_bound = [meta |-> MaxOddMeta, app |-> MaxOddApp, odd |-> 0]
    /\ InitNode

SpecAny == InitAny /\ [][NextOpen]_vars

\* Both nodes run this code and the session objects may be destroyed, which
\* cancels the receiver, at any moment after they were returned.
NextClose ==
    \/ \E n \in Nodes : NodeStep(n)
    \/ \E n \in Nodes : ReceiveFromPeer(n)
    \/ \E n \in Nodes : cancel(n)

InitClose ==
    /\ live = Nodes
    /\ llm_docs = {"docA"}
    /\ round_bound = MaxRound
    /\ env_bound = [meta |-> 0, app |-> 0, odd |-> 0]
    /\ InitNode

SpecClose == InitClose /\ [][NextClose]_vars

\* Both nodes run this code and the provider's LLM may call the
\* get_capability_info tool.
NextTools ==
    \/ \E n \in Nodes : NodeStep(n)
    \/ \E n \in Nodes : ReceiveFromPeer(n)
    \/ \E n \in Nodes, cb \in {"none", "returns", "raises"} : CapabilityInfoCalled(n, cb)

InitTools ==
    /\ live = Nodes
    /\ llm_docs = {"docA"}
    /\ round_bound = MaxRound
    /\ env_bound = [meta |-> 0, app |-> 0, odd |-> 0]
    /\ InitNode

SpecTools == InitTools /\ [][NextTools]_vars

\* Two negotiations on one node generate code under one protocol_code_path,
\* which is empty or holds a bundle of an earlier negotiation, and the
\* node's registry loads what is there.
InitBundles ==
    /\ live = {}
    /\ llm_docs = Docs
    /\ round_bound = MaxRound
    /\ env_bound = [meta |-> 0, app |-> 0, odd |-> 0]
    /\ InitSession
    /\ disk \in {[d \in Dirs |-> NoDir],
                 [d \in Dirs |-> IF d = ModuleDir(ModuleName) THEN Bundle("docA")
                                                              ELSE NoDir]}
    /\ clock = 0
    /\ gen = [g \in Gens |-> NoGenerator]
    /\ requester_protocols = {}
    /\ provider_protocols = {}
    /\ tampered = 0

NextBundles ==
    \/ \E g \in Gens, protocol_doc \in {"docA", "docB"} : Generate(g, protocol_doc)
    \/ \E g \in Gens, out \in CodeOutputs : RequesterCodeGenerated(g, out)
    \/ \E g \in Gens, out \in CodeOutputs : ProviderCodeGenerated(g, out)
    \/ Tick
    \/ \E d \in Dirs, key \in Keys, content \in {"changed"} : Tamper(d, key, content)
    \/ \E d \in Dirs : LoadProtocol(d)
    \/ \E order \in Listings(disk) : ReloadAllProtocols(order)

SpecBundles == InitBundles /\ [][NextBundles]_vars

\* A frame of type protocol_type is emitted and its first byte is read with
\* the reserved bits as given.
HeaderRoundTrip(protocol_type, reserved) ==
    /\ hdr' = Header(protocol_type, reserved)
    /\ UNCHANGED <<live, llm_docs, round_bound, env_bound, capability_info_history,
                   bundleVars, pc, negVars, queueVars,
                   data, result, proc_ret, timed_out, wire, sent, cgVars, cgRetVars,
                   retVars, bindVars, taken_unbound, taken, rpc, session_open,
                   env_count>>

NextHeader ==
    \E protocol_type \in {META, APPLICATION, NATURAL, VERIFICATION}, reserved \in 0..63 :
        HeaderRoundTrip(protocol_type, reserved)

SpecHeader == Init /\ [][NextHeader]_vars

\* Both nodes run this code and every codeGeneration frame is delivered
\* within code_generation_timeout_seconds: the wait for it does not time out.
\* The event loop runs every coroutine that is ready, so the steps of each
\* orchestrator and of each receiver are weakly fair.  A request follows the
\* handshake of its sender here, so no APPLICATION frame is buffered before
\* the handler is set and the drain loop of set_app_protocol_handler has
\* nothing to await.
NodeStepInTime(n) ==
    \/ NegotiateProtocol(n)
    \/ \E out \in InitialOutputs : InitialProtocolGenerated(n, out)
    \/ InitialSent(n)
    \/ WaitRemoteNegotiation(n)
    \/ NegotiationWakeUp(n)
    \/ NegotiationTimeout(n)
    \/ \E out \in EvalOutputs(negotiation_round[n]) : ProposalEvaluated(n, out)
    \/ ResultSent(n)
    \/ \E ok \in BOOLEAN, bundle \in {"ok", "bad"} : CodeGenerated(n, ok, bundle)
    \/ CallbackCodeGenerated(n)
    \/ NotificationSent(n)
    \/ CodeGenerationWakeUp(n)
    \/ \E ok \in BOOLEAN : InterfaceCodeGenerated(n, ok)
    \/ close(n)
    \/ ReceiverHandlerReturns(n)
    \/ ReceiverHandlerRaises(n)

NextInTime ==
    \/ \E n \in Nodes : NodeStepInTime(n)
    \/ \E n \in Nodes : ReceiveFromPeer(n)

FairInTime ==
    \A n \in Nodes : WF_vars(NodeStepInTime(n)) /\ WF_vars(ReceiveFromPeer(n))

SpecInTime == Init /\ [][NextInTime]_vars /\ FairInTime

\* ------------------------------------------------------------- properties

\* _process_negotiation_messages of node n has returned success.
Succeeded(n) == Len(proc_ret[n]) = 2 /\ proc_ret[n][1]

\* _process_negotiation_messages of node n has returned failure.
Failed(n) == Len(proc_ret[n]) = 2 /\ ~proc_ret[n][1]

\* C1: whenever _process_negotiation_messages has returned success on both
\* the requester side and the provider side, the two returned protocol
\* documents are the same.
C1_AgreedDocumentsIdentical ==
    (Succeeded("alice") /\ Succeeded("bob"))
        => proc_ret["alice"][2] = proc_ret["bob"][2]

\* Both sides succeeded after more than one NEGOTIATING round, the requester
\* having issued the ACCEPTED verdict on the provider's counter-proposal.
C1_Witness ==
    /\ Succeeded("alice") /\ Succeeded("bob")
    /\ negotiation_round["alice"] >= 3
    /\ data["alice"].status = NEGOTIATING
    /\ data["bob"].status = ACCEPTED

\* frame occurs in the sequence frames.
InSeq(frame, frames) == \E i \in DOMAIN frames : frames[i] = frame

\* C2: every APPLICATION frame taken with no handler bound is in the buffer
\* until it is passed to the handler, the frames passed from the buffer are
\* a prefix of those taken, in arrival order and once each, and once
\* set_app_protocol_handler has been called and is over, every one of them
\* has been passed to the handler.
C2_BufferedFramesDelivered ==
    \A n \in Nodes :
        /\ taken_unbound[n] = drained[n] \o app_messages_queue[n]
        /\ (app_protocol_handler[n] /\ pc[n] # "drain")
               => app_messages_queue[n] = <<>>

\* C3: in a run where no handle_message raises out of set_app_protocol_handler,
\* an APPLICATION frame that arrived after the binding is passed to the
\* handler only after every frame that was buffered before the binding.
C3_BufferedBeforeLive ==
    \A n \in Nodes :
        node_ret[n] # "raised" =>
            \A i \in DOMAIN handled[n] :
                ~InSeq(handled[n][i], taken_unbound[n]) =>
                    \A k \in DOMAIN taken_unbound[n] :
                        \E j \in 1..(i - 1) : handled[n][j] = taken_unbound[n][k]

\* C4: a negotiation that went past max_negotiation_rounds has ended, and
\* ended in failure: no side is past the cap with its negotiation still
\* running or returned as success.
C4_RoundsCapped ==
    \A n \in Nodes :
        negotiation_round[n] > max_negotiation_rounds => Failed(n)

\* C5: when the wait of _process_negotiation_messages has timed out on the
\* initiator, negotiate_protocol has returned (False, ""), the node has
\* returned None, and until the application closes it the session is open.
C5_TimeoutFailsSessionOpen ==
    (timed_out["alice"] /\ pc["alice"] = "done")
        => /\ neg_ret["alice"] = <<FALSE, "">>
           /\ node_ret["alice"] = "none"
           /\ session_open["alice"]

\* The initiator sent its first proposal, no protocolNegotiation frame was
\* processed before the timeout, and connect_to_did_with_negotiation has
\* returned.
C5_Witness ==
    /\ timed_out["alice"] /\ pc["alice"] = "done"
    /\ Len(sent["alice"]) = 1 /\ sent["alice"][1].status = NEGOTIATING
    /\ data["alice"] = NoMessage

\* C6: a return of _process_negotiation_messages is a success exactly when
\* the last result is ACCEPTED, a success carries that result's document and
\* a failure carries "".
C6_ReturnMatchesOutcome ==
    \A n \in Nodes :
        Len(proc_ret[n]) = 2 =>
            /\ proc_ret[n][1] <=> result[n].status = ACCEPTED
            /\ proc_ret[n][1] => proc_ret[n][2] = result[n].candidate_protocol
            /\ ~proc_ret[n][1] => proc_ret[n][2] = ""

\* A side whose LLM verdict had no status: the REJECTED result carries the
\* document the LLM wrote, and the return is the failure with "".
C6_Witness ==
    \E n \in Nodes :
        /\ Failed(n) /\ ~timed_out[n]
        /\ result[n].status = REJECTED
        /\ result[n].candidate_protocol # ""

CodeGenerationSent(n) ==
    \E i \in DOMAIN sent[n] : sent[n][i].action = "codeGeneration"

\* The receiver of node n has taken a codeGeneration frame of the peer.
CodeGenerationReceived(n) ==
    code_generation_messages[n] # <<>> \/ cg_msg[n] # NoMessage

\* Node n has sent an application request.
RequestSent(n) ==
    \E i \in DOMAIN sent[n] :
        decode_protocol_header(sent[n][i].header) = APPLICATION

\* C8: on each side an APPLICATION frame has been handed to the generated
\* instance, or a request has been sent through it, only if that side has
\* sent its own codeGeneration frame and has received the peer's.
C8_HandshakeBarrier ==
    \A n \in Nodes :
        (handled[n] # <<>> \/ RequestSent(n))
            => (CodeGenerationSent(n) /\ CodeGenerationReceived(n))

\* C9: code_generated() has returned True only on a codeGeneration frame
\* whose status is "generated", so never on one whose status is "error".
C9_TrueOnlyOnGenerated ==
    \A n \in Nodes :
        cg_ret[n] = "True" => cg_msg[n].status = "generated"

\* C10: a side whose code generation failed after an ACCEPTED negotiation
\* and whose orchestrator has ended has sent a codeGeneration frame with
\* status "error".
C10_ErrorNotified ==
    \A n \in Nodes :
        (Succeeded(n) /\ code_generation_ok[n] = "failed" /\ pc[n] \in {"done", "closed"})
            => InSeq(create_code_generation_message(FALSE), sent[n])

\* The protocolNegotiation frames node n has emitted, in emission order.
IsNegotiationFrame(frame) == frame.action = "protocolNegotiation"

NegotiationFramesSent(n) == SelectSeq(sent[n], IsNegotiationFrame)

\* C11: the sequenceId values of the protocolNegotiation frames one side
\* emits during a negotiation are strictly increasing and consecutive values
\* differ by exactly 2, the side's final accepted or rejected frame included.
C11_SequenceIdsStepTwo ==
    \A n \in Nodes :
        LET frames == NegotiationFramesSent(n) IN
        \A i \in 1..(Len(frames) - 1) :
            frames[i + 1].sequenceId = frames[i].sequenceId + 2

\* The sequenceIds of the proposals (status negotiating) node n has emitted.
ProposalRounds(n) ==
    {sent[n][i].sequenceId : i \in {j \in DOMAIN sent[n] :
        IsNegotiationFrame(sent[n][j]) /\ sent[n][j].status = NEGOTIATING}}

\* C12: in every reachable state the requester's local round is odd and the
\* provider's is even, 0 until its first evaluation, so no round number one
\* side used for a proposal is used by the other side for a proposal.
C12_RoundParity ==
    /\ \A n \in Nodes :
          /\ role[n] = REQUESTER => negotiation_round[n] % 2 = 1
          /\ role[n] = PROVIDER => negotiation_round[n] % 2 = 0
          /\ role[n] = PROVIDER /\ result[n] = NoResult => negotiation_round[n] = 0
    /\ ProposalRounds("alice") \cap ProposalRounds("bob") = {}

\* Both sides have made a counter-proposal: the requester's rounds 1 and 3,
\* the provider's rounds 2 and 4.
C12_Witness ==
    /\ role["alice"] = REQUESTER /\ role["bob"] = PROVIDER
    /\ ProposalRounds("alice") = {1, 3}
    /\ ProposalRounds("bob") = {2, 4}

\* The frames of sequence frames that have action a and status st.
FramesWith(frames, a, st) ==
    SelectSeq(frames, LAMBDA frame : frame.action = a /\ frame.status = st)

\* The frames of sequence frames that have action a.
FramesOf(frames, a) == SelectSeq(frames, LAMBDA frame : frame.action = a)

\* C13: when the provider's first evaluation of the requester's initial
\* proposal is ACCEPTED, the session carries one proposal frame, one
\* protocolNegotiation frame with status accepted, and after it at most one
\* codeGeneration frame from each side, each with status generated.
C13_HappyPathFrames ==
    LET all == sent["alice"] \o sent["bob"]
        first == NegotiationFramesSent("bob")
    IN (first # <<>> /\ first[1].status = ACCEPTED) =>
          /\ Len(FramesWith(all, "protocolNegotiation", NEGOTIATING)) = 1
          /\ Len(FramesWith(all, "protocolNegotiation", ACCEPTED)) = 1
          /\ \A n \in Nodes :
                /\ Len(FramesOf(sent[n], "codeGeneration")) <= 1
                /\ FramesOf(sent[n], "codeGeneration") =
                      FramesWith(sent[n], "codeGeneration", "generated")

\* The frame the receiver of node n takes in this step, if it takes one.
Takes(n) == Len(taken'[n]) = Len(taken[n]) + 1

TakenFrame(n) == taken'[n][Len(taken'[n])]

\* What MetaProtocol.handle_meta_data writes for node n is left as it is.
MetaUntouched(n) ==
    /\ negotiation_messages'[n] = negotiation_messages[n]
    /\ negotiation_messages_event'[n] = negotiation_messages_event[n]
    /\ code_generation_messages'[n] = code_generation_messages[n]
    /\ code_generation_messages_event'[n] = code_generation_messages_event[n]
    /\ code_generation_ok'[n] = code_generation_ok[n]
    /\ UNCHANGED negVars

\* The app handler and the app buffer of node n are left as they are.
AppUntouched(n) ==
    /\ handled'[n] = handled[n]
    /\ app_messages_queue'[n] = app_messages_queue[n]
    /\ taken_unbound'[n] = taken_unbound[n]

\* The dispatch of the frame node n takes in this step.
DispatchedByType(n) ==
    LET frame == TakenFrame(n)
        protocol_type == decode_protocol_header(frame.header)
    IN /\ protocol_type = META =>
             /\ AppUntouched(n)
             /\ frame.action = "protocolNegotiation" =>
                   /\ negotiation_messages'[n] = Append(negotiation_messages[n], frame)
                   /\ negotiation_messages_event'[n]
             /\ frame.action = "codeGeneration" =>
                   /\ code_generation_messages'[n] =
                          Append(code_generation_messages[n], frame)
                   /\ code_generation_messages_event'[n]
       /\ protocol_type = APPLICATION =>
             /\ MetaUntouched(n)
             /\ IF app_protocol_handler[n]
                THEN /\ handled'[n] = Append(handled[n], frame)
                     /\ app_messages_queue'[n] = app_messages_queue[n]
                ELSE /\ app_messages_queue'[n] = Append(app_messages_queue[n], frame)
                     /\ handled'[n] = handled[n]
       /\ protocol_type \notin {META, APPLICATION} =>
             /\ MetaUntouched(n)
             /\ AppUntouched(n)
             /\ rpc'[n] = "recv"

\* C14: of the frames the receiver takes from the session, a META frame goes
\* to handle_meta_data and never to the app handler or the app buffer; an
\* APPLICATION frame goes to the bound handler, or to the buffer when none
\* is bound, and never to the negotiator; a frame of any other type is
\* dropped and the receiver waits for the next frame.
C14_DispatchByType ==
    [][\A n \in Nodes :
          Takes(n) /\ TakenFrame(n) # NoneMessage => DispatchedByType(n)]_vars

\* The receiver has taken a frame of another type, later an APPLICATION
\* frame that it passed to the bound handler, and a protocolNegotiation frame.
C14_Witness ==
    \E n \in Nodes : \E i, j, k \in DOMAIN taken[n] :
        /\ i < j
        /\ decode_protocol_header(taken[n][i].header) \in {NATURAL, VERIFICATION}
        /\ decode_protocol_header(taken[n][j].header) = APPLICATION
        /\ InSeq(taken[n][j], handled[n])
        /\ decode_protocol_header(taken[n][k].header) = META
        /\ taken[n][k].action = "protocolNegotiation"

\* C15: a received frame whose secretKeyId does not match the session key,
\* or whose decryption fails, is dropped and the receiver keeps running, so
\* that META and APPLICATION frames that arrive after it are dispatched.
C15_UndecryptableDropped ==
    \A n \in Nodes :
        (taken[n] # <<>> /\ taken[n][Len(taken[n])] = NoneMessage) =>
            rpc[n] = "recv"

\* C16: a META frame whose payload does not decode as UTF-8 JSON is skipped:
\* nothing is appended to the negotiation or the code-generation queue, no
\* event is set, the negotiator is unchanged, and the receiver waits for the
\* next frame.
C16_UndecodableSkipped ==
    [][\A n \in Nodes :
          Takes(n) /\ TakenFrame(n) = UndecodableFrame =>
              /\ MetaUntouched(n)
              /\ AppUntouched(n)
              /\ rpc'[n] = rpc[n]
              /\ rpc'[n] = "recv"
              /\ session_open'[n] = session_open[n]]_vars

\* After a META frame that does not decode the receiver has taken a
\* protocolNegotiation frame, and the negotiation has evaluated it.
C16_Witness ==
    \E n \in Nodes : \E i, j \in DOMAIN taken[n] :
        /\ i < j
        /\ taken[n][i] = UndecodableFrame
        /\ taken[n][j].action = "protocolNegotiation"
        /\ data[n] = taken[n][j]
        /\ result[n] # NoResult

\* C17: for every protocol type t, decoding the emitted header byte gives t
\* and the low 6 bits of the emitted byte are zero; the receiver reads the
\* type from the top 2 bits only, so the same type is dispatched whatever
\* the low 6 bits of the received byte are.
C17_HeaderRoundTrip ==
    /\ hdr.header_byte = encode_protocol_header(hdr.protocol_type)
    /\ hdr.header_byte \in 0..255
    /\ hdr.header_byte % 64 = 0
    /\ decode_protocol_header(hdr.header_byte) = hdr.protocol_type
    /\ hdr.received % 64 # 0 => hdr.received # hdr.header_byte
    /\ hdr.decoded = hdr.protocol_type

\* A VERIFICATION header read with all 6 reserved bits set.
C17_Witness ==
    /\ hdr.protocol_type = VERIFICATION
    /\ hdr.received = 255
    /\ hdr.decoded = VERIFICATION

\* The JSON verdicts of the LLM whose status is missing or is none of
\* negotiating, accepted, rejected.
BadStatusOutputs(round) ==
    {out \in EvalOutputs(round) :
        /\ out.kind = "json"
        /\ Lower(out.status) \notin {NEGOTIATING, ACCEPTED, REJECTED}}

\* The last frame node n emitted after this step.
FrameSent(n) == sent'[n][Len(sent'[n])]

\* _process_negotiation_messages leaves its loop with a REJECTED result: it
\* returns (False, "").
RejectedReturnsFailure(n) ==
    (pc[n] = "send_result" /\ result[n].status = REJECTED /\ pc'[n] # pc[n]) =>
        /\ proc_ret'[n] = <<FALSE, "">>
        /\ sent'[n] = sent[n]

\* C18: when the LLM's verdict has a status that is missing or is not one of
\* negotiating/accepted/rejected, the evaluation result is REJECTED, a
\* rejected frame is sent to the peer and the negotiation returns failure.
C18_BadStatusRejected ==
    [][\A n \in Nodes :
          /\ \A out \in BadStatusOutputs(negotiation_round[n]) :
                ProposalEvaluated(n, out) =>
                    /\ result'[n].status = REJECTED
                    /\ Len(sent'[n]) = Len(sent[n]) + 1
                    /\ IsNegotiationFrame(FrameSent(n))
                    /\ FrameSent(n).status = REJECTED
                    /\ pc'[n] = "send_result"
          /\ RejectedReturnsFailure(n)]_vars

\* An evaluation ended on a status the parser does not know: the rejected
\* frame is out and the negotiation has returned failure.
C18_Witness ==
    \E n \in Nodes :
        /\ result[n] = NegotiationResult(REJECTED, "", "Error parsing result")
        /\ sent[n] # <<>>
        /\ sent[n][Len(sent[n])].status = REJECTED
        /\ Failed(n)
        /\ ~timed_out[n]

\* _process_negotiation_messages of node n pops the head of its queue in
\* this step and hands it to evaluate_protocol_proposal.
Evaluates(n) ==
    /\ negotiation_messages[n] # <<>>
    /\ negotiation_messages'[n] = Tail(negotiation_messages[n])
    /\ data'[n] = Head(negotiation_messages[n])
    /\ pc'[n] \in {"llm_eval", "send_result"}

\* The evaluation the negotiator of node n makes of the frame in data[n]
\* when the LLM answers out: no part of it reads data[n].sequenceId.
EvaluationOf(n, out) ==
    IF role[n] = PROVIDER
    THEN evaluate_as_provider(out, data[n].candidateProtocols,
                              negotiation_round[n], negotiation_history[n])
    ELSE evaluate_as_requester(out, data[n].candidateProtocols,
                               negotiation_round[n], negotiation_history[n])

\* C19: an inbound protocolNegotiation frame whose sequenceId differs from
\* the local round + 1 is evaluated as a frame with the expected sequenceId
\* is: the negotiation is not aborted, and the resulting status, document
\* and local round are those the status and the document of the frame, the
\* local state and the LLM's answer give, whatever the sequenceId.
C19_SequenceIdNotChecked ==
    [][\A n \in Nodes :
          /\ Evaluates(n) =>
                /\ negotiation_round'[n] = negotiation_round[n]
                /\ IF data'[n].status \in {ACCEPTED, REJECTED}
                   THEN /\ result'[n] = evaluate_terminal(data'[n].status,
                                                          data'[n].candidateProtocols,
                                                          negotiation_history[n])
                        /\ pc'[n] = "send_result"
                   ELSE /\ pc'[n] = "llm_eval"
                        /\ result'[n] = result[n]
                        /\ sent'[n] = sent[n]
          /\ \A out \in EvalOutputs(negotiation_round[n]) :
                ProposalEvaluated(n, out) =>
                    /\ result'[n] = EvaluationOf(n, out).result
                    /\ negotiation_round'[n] = EvaluationOf(n, out).negotiation_round]_vars

\* A proposal that came with a sequenceId other than the one the local
\* round expected was accepted, and the negotiation returned success.
C19_Witness ==
    \E n \in Nodes :
        /\ data[n].status = NEGOTIATING
        /\ data[n].sequenceId # negotiation_round[n] - 1
        /\ result[n].status = ACCEPTED
        /\ result[n].candidate_protocol = data[n].candidateProtocols
        /\ Succeeded(n)

\* The answers of the LLM to an evaluation that are empty or are no JSON.
NoVerdictOutputs(round) ==
    {out \in EvalOutputs(round) : out.kind \in {"empty", "unparsable"}}

\* C20: when the LLM's evaluation response is empty or is not parseable
\* JSON, the evaluation yields REJECTED with a non-empty
\* modification_summary, a rejected frame carrying that summary is sent to
\* the peer, and the negotiation ends with failure.
C20_NoVerdictRejected ==
    [][\A n \in Nodes :
          /\ \A out \in NoVerdictOutputs(negotiation_round[n]) :
                ProposalEvaluated(n, out) =>
                    /\ result'[n].status = REJECTED
                    /\ result'[n].modification_summary # ""
                    /\ Len(sent'[n]) = Len(sent[n]) + 1
                    /\ IsNegotiationFrame(FrameSent(n))
                    /\ FrameSent(n).status = REJECTED
                    /\ FrameSent(n).modificationSummary = result'[n].modification_summary
                    /\ pc'[n] = "send_result"
          /\ (pc[n] = "send_result" /\ result[n].status = REJECTED /\ pc'[n] # pc[n]) =>
                /\ Failed(n)'
                /\ pc'[n] \notin {"wait", "llm_eval", "codegen"}]_vars

\* The provider's LLM gave no verdict on the first proposal: the round is
\* advanced, the rejected frame carries the reason, and the negotiation has
\* returned failure.
C20_Witness ==
    \E n \in Nodes :
        /\ role[n] = PROVIDER
        /\ negotiation_round[n] = 2
        /\ result[n] = NegotiationResult(REJECTED, "", "Error during evaluation")
        /\ sent[n] # <<>>
        /\ sent[n][Len(sent[n])].modificationSummary = "Error during evaluation"
        /\ Failed(n)

\* C21: when the get_capability_info callback raises during a provider
\* evaluation, the negotiation is surfaced as REJECTED with a
\* modification_summary explaining the cause, and the negotiation ends.
C21_CallbackFailureRejected ==
    \A n \in Nodes :
        (/\ InSeq(get_capability_info("raises"), capability_info_history[n])
         /\ pc[n] # "llm_eval") =>
            /\ result[n].status = REJECTED
            /\ result[n].modification_summary # ""
            /\ ~Succeeded(n)

\* C22: connect_to_did_with_negotiation gives its caller a failed return (no
\* RequesterSession) and does not raise when the negotiation is rejected or
\* times out, when code generation fails, and when the generated bundle does
\* not load into the registry: whenever it has ended without a bound
\* handler, it has returned None.
C22_FailedReturnNoRaise ==
    (pc["alice"] \in {"done", "closed"} /\ ~app_protocol_handler["alice"]) =>
        node_ret["alice"] = "none"

\* _new_session_callback of node n has reached its call of
\* new_provider_session_callback.
CallbackInvoked(n) == n = "bob" /\ node_ret[n] = "session"

C24_HandlerExceptionLocal ==
    [][\A n \in Nodes :
          rpc[n] = "handling" => rpc'[n] \in {"handling", "recv"}]_vars

\* What the registry holds: the containers of both indexes.
Containers == requester_protocols \cup provider_protocols

\* Every file that meta lists is there with the content whose sha256 meta
\* records.
FilesMatch(bundle) ==
    \A k \in Keys :
        bundle.meta[k] = NoHash \/ (bundle.files[k] # Absent /\ bundle.meta[k] = Hash(bundle.files[k]))

\* C25: every container in the requester or the provider index was read
\* from a directory in which, at that load_protocol call, every file listed
\* in meta_data.json existed with its recorded sha256, and its key in the
\* index is the sha256 of the protocol_document.md read then.
C25_IndexedWereVerified ==
    \A e \in Containers :
        /\ e.bundle.exists
        /\ FilesMatch(e.bundle)
        /\ e.protocol_hash = Hash(e.bundle.files["protocol_document"])

\* Both indexes hold a container while a directory on disk has a file that
\* no longer matches its recorded hash.
C25_Witness ==
    /\ requester_protocols # {}
    /\ provider_protocols # {}
    /\ \E d \in Dirs : disk[d].exists /\ ~FilesMatch(disk[d])

\* A bundle with a listed file that is missing or has another sha256, and a
\* complete bundle whose files all match and whose two classes load.
FailsVerification(bundle) == bundle.exists /\ ~FilesMatch(bundle)

ValidBundle(bundle) ==
    /\ bundle.exists
    /\ FilesMatch(bundle)
    /\ \A k \in Keys : bundle.meta[k] # NoHash
    /\ \A k \in Keys \ {"protocol_document"} : bundle.files[k] = "class"

\* Directory d has a container in the index.
IndexedIn(index, d) == \E e \in index : e.protocol_dir = d

\* C26: when reload_all_protocols scans a root with one bundle that fails
\* hash verification and at least one valid bundle, afterwards the failing
\* bundle is in neither index, every valid bundle is in both, and the two
\* lookups by the failing bundle's protocol hash give (None, None).
C26_ReloadSkipsFailing ==
    [][\A order \in Listings(disk) :
          (/\ ReloadAllProtocols(order)
           /\ \E d \in Dirs : ValidBundle(disk[d])) =>
              \A f \in Dirs : FailsVerification(disk[f]) =>
                  /\ ~IndexedIn(requester_protocols', f)
                  /\ ~IndexedIn(provider_protocols', f)
                  /\ \A d \in Dirs : ValidBundle(disk[d]) =>
                         /\ IndexedIn(requester_protocols', d)
                         /\ IndexedIn(provider_protocols', d)
                  /\ get_requester_by_hash(disk[f].meta["protocol_document"])' = None
                  /\ get_provider_by_hash(disk[f].meta["protocol_document"])' = None]_vars

\* meta_data.json of the bundle records the document and, for both sides,
\* code that was not empty.
CompleteBundle(bundle) ==
    /\ bundle.exists
    /\ \A k \in Keys : bundle.meta[k] # NoHash
    /\ \A k \in Keys \ {"protocol_document"} : bundle.meta[k] # Hash("")

\* C27: generate returns (False, None) when the step it just finished for
\* the provider failed (no descriptor, no code block, a failed write), and
\* it returns (True, path) only when path holds the complete bundle, which
\* it cannot after a failed requester step.
C27_GenerateReportsFailure ==
    [][\A g \in Gens, out \in CodeOutputs :
          ProviderCodeGenerated(g, out) =>
              /\ out # "code" => gen'[g].ret = <<FALSE, None>>
              /\ gen'[g].ret[1] => CompleteBundle(disk'[gen'[g].ret[2]])]_vars

\* Generator g takes a step in which it creates its module directory.
CreatesModule(g) == gen[g].module_name = <<>> /\ gen'[g].module_name # <<>>

\* The directories with a timestamp suffix.
TimestampDirs == {TimestampDir(ModuleName, t) : t \in 0..MaxClock}

\* Both lookups by the protocol hash of the bundle in directory d give the
\* container of d.
Retrievable(d) ==
    /\ get_requester_by_hash(disk[d].meta["protocol_document"]) = d
    /\ get_provider_by_hash(disk[d].meta["protocol_document"]) = d

\* A generator that finds the module name's directory present writes to the
\* name with the timestamp suffix and leaves that directory as it was.
TimestampSuffixUsed ==
    \A g \in Gens :
        (CreatesModule(g) /\ disk[ModuleDir(ModuleName)].exists) =>
            /\ gen'[g].module_name = TimestampDir(ModuleName, clock)
            /\ disk'[ModuleDir(ModuleName)] = disk[ModuleDir(ModuleName)]

\* Once the bundle under the module name and a valid bundle under the name
\* with a timestamp suffix have both been loaded, each is retrievable.
BothRetrievable ==
    \A order \in Listings(disk), t \in TimestampDirs :
        (/\ ReloadAllProtocols(order)
         /\ ValidBundle(disk[ModuleDir(ModuleName)])
         /\ ValidBundle(disk[t])) =>
            Retrievable(ModuleDir(ModuleName))' /\ Retrievable(t)'

\* C28: generation for a module name whose directory exists writes the new
\* bundle under the name with a timestamp suffix and does not modify the
\* existing directory, and after both bundles are loaded both are
\* retrievable from the registry.
C28_TimestampedBundleCoexists == [][TimestampSuffixUsed /\ BothRetrievable]_vars

\* Generator h has created its module directory and generate() has not
\* returned yet.
Generating(h) == gen[h].pc = "provider" /\ gen[h].module_name # <<>>

\* C29: two sessions that run concurrently on one node are independent; in
\* particular the code generator of one never picks the module directory
\* that the generator of the other, still running, writes to, even when
\* both LLMs suggest the same module name.
C29_DistinctModuleDirectories ==
    [][\A g, h \in Gens :
          (g # h /\ CreatesModule(g) /\ Generating(h)) =>
              gen'[g].module_name # gen[h].module_name]_vars

\* The frame node n takes in this step is a META frame with an action of
\* ReservedActions.
TakesReserved(n) == Takes(n) /\ TakenFrame(n).action \in ReservedActions

\* C30: receiving a META frame with action testCasesNegotiation,
\* fixErrorNegotiation or naturalLanguageNegotiation leaves the negotiation
\* queue, the code-generation queue, both events, the local round counter
\* and the negotiation history as they were.
C30_ReservedActionsIgnored ==
    [][\A n \in Nodes : TakesReserved(n) => MetaUntouched(n)]_vars

\* A negotiation with a proposal queued and a round counted has taken such
\* a frame and gone on to evaluate a proposal taken after it.
C30_Witness ==
    \E n \in Nodes : \E i, j \in DOMAIN taken[n] :
        /\ i < j
        /\ taken[n][i].action \in ReservedActions
        /\ taken[n][j].action = "protocolNegotiation"
        /\ data[n] = taken[n][j]
        /\ result[n] # NoResult
        /\ negotiation_round[n] > 0

\* C31: MessageReceiverTask.cancel on a receiver that was cancelled before
\* changes nothing, and once SimpleNodeSession.close has completed neither
\* the receive task of the demultiplexer nor the heartbeat task of that
\* session is running.
C31_CancelIdempotentCloseStopsTasks ==
    [][\A n \in Nodes :
          /\ (rpc[n] = "cancelled" /\ cancel(n)) => UNCHANGED vars
          /\ ~session_open'[n] => ~ReceiveTaskRunning(n)' /\ ~HeartbeatRunning(n)']_vars

\* The result of node n is ACCEPTED and came from its own LLM's evaluation
\* of the proposal in data[n], or from the accepted frame in data[n].
AcceptedByLLM(n) == result[n].status = ACCEPTED /\ data[n].status = NEGOTIATING

AcceptedByPeer(n) == result[n].status = ACCEPTED /\ data[n].status = ACCEPTED

\* The last proposal in the history of node n, or doc if there is none.
LastProposal(n, doc) ==
    IF negotiation_history[n] # <<>>
    THEN negotiation_history[n][Len(negotiation_history[n])].candidate_protocols
    ELSE doc

\* The last frame node n sent, and what its negotiation returned, carry doc.
AcceptedWith(n, doc) ==
    /\ sent[n] # <<>>
    /\ sent[n][Len(sent[n])].action = "protocolNegotiation" =>
           /\ sent[n][Len(sent[n])].status = ACCEPTED
           /\ sent[n][Len(sent[n])].candidateProtocols = doc
    /\ Len(proc_ret[n]) = 2 => proc_ret[n] = <<TRUE, doc>>

\* C32: when the own LLM evaluation of a side yields ACCEPTED, the document
\* of its result, of its accepted frame and of its return is the proposal it
\* evaluated, whatever candidate_protocol the LLM wrote; when a side takes an
\* accepted frame, the document is the last proposal of its own history, and
\* the received document only with an empty history.
C32_AcceptedDocument ==
    \A n \in Nodes :
        /\ AcceptedByLLM(n) =>
               /\ result[n].candidate_protocol = data[n].candidateProtocols
               /\ AcceptedWith(n, data[n].candidateProtocols)
        /\ AcceptedByPeer(n) =>
               /\ result[n].candidate_protocol = LastProposal(n, data[n].candidateProtocols)
               /\ AcceptedWith(n, LastProposal(n, data[n].candidateProtocols))

\* One side has accepted docA by its own LLM, which can only write docB or
\* nothing next to ACCEPTED, and has returned it.
C32_Witness ==
    \E n \in Nodes :
        /\ AcceptedByLLM(n)
        /\ data[n].candidateProtocols = "docA"
        /\ proc_ret[n] = <<TRUE, "docA">>

\* An evaluation by the LLM of node n starts in this step.
EvaluationStarts(n) == pc[n] # "llm_eval" /\ pc'[n] = "llm_eval"

\* capability_info_history of node n after the step is the one before it
\* with one entry appended.
OneAppended(n) ==
    /\ Len(capability_info_history'[n]) = Len(capability_info_history[n]) + 1
    /\ SubSeq(capability_info_history'[n], 1, Len(capability_info_history[n])) =
           capability_info_history[n]

\* C33: in a provider negotiation capability_info_history changes only by a
\* get_capability_info tool invocation, which appends exactly one entry and
\* leaves the earlier ones in place; the prompt of every evaluation that
\* starts later holds all of it; a negotiator in the REQUESTER role never
\* invokes the callback, so its history stays empty.
C33_CapabilityHistoryAppendOnly ==
    [][\A n \in Nodes :
          /\ (\E cb \in {"none", "returns", "raises"} : CapabilityInfoCalled(n, cb))
                 => OneAppended(n)
          /\ capability_info_history'[n] # capability_info_history[n]
                 => OneAppended(n) /\ role[n] = PROVIDER /\ pc[n] = "llm_eval"
          /\ EvaluationStarts(n) =>
                 user_prompt(data'[n], negotiation_history'[n],
                             capability_info_history'[n]).capability_info_history
                     = capability_info_history[n]
          /\ role'[n] = REQUESTER => capability_info_history'[n] = <<>>]_vars

\* The provider starts a later evaluation with two entries in its history,
\* the first from a callback that returned and the second from one that
\* raised.
C33_Witness ==
    /\ pc["bob"] = "llm_eval"
    /\ negotiation_round["bob"] >= 2
    /\ Len(capability_info_history["bob"]) = 2
    /\ capability_info_history["bob"][1] = get_capability_info("returns")
    /\ capability_info_history["bob"][2] = get_capability_info("raises")

\* _process_negotiation_messages of node n has returned.
Returned(n) == Len(proc_ret[n]) = 2

\* C34: with reliable in-order delivery and no timeout on either side, once
\* _process_negotiation_messages has returned on both sides it has returned
\* success on both or failure on both.
C34_SameOutcome ==
    (/\ Returned("alice") /\ Returned("bob")
     /\ ~timed_out["alice"] /\ ~timed_out["bob"]) =>
        (Succeeded("alice") <=> Succeeded("bob"))

\* Both sides have returned failure without a timeout after the requester's
\* LLM rejected a counter-proposal of the provider.
C34_Witness ==
    /\ Failed("alice") /\ Failed("bob")
    /\ ~timed_out["alice"] /\ ~timed_out["bob"]
    /\ negotiation_round["alice"] >= 3
    /\ result["alice"].status = REJECTED
    /\ data["bob"].status = REJECTED

\* Node n proposed doc earlier in this negotiation.
ProposedBy(n, doc) ==
    \E i \in DOMAIN negotiation_history[n] :
        negotiation_history[n][i].candidate_protocols = doc

\* C35: whatever frames arrive, also with a peer whose first frame has
\* status accepted, the negotiation of a side returns success only with a
\* document that this side proposed earlier or that its own LLM evaluation
\* accepted.
C35_SuccessOnlyWithOwnOrEvaluated ==
    \A n \in Nodes :
        Succeeded(n) =>
            \/ ProposedBy(n, proc_ret[n][2])
            \/ AcceptedByLLM(n) /\ proc_ret[n][2] = data[n].candidateProtocols

\* _process_negotiation_messages of node n is blocked on the event.
BlockedOnEvent(n) == pc[n] = "wait" /\ ~negotiation_messages_event[n]

\* The negotiation of node n has not returned.
NegotiationRunning(n) == pc[n] \in {"llm_initial", "send_initial", "wait", "llm_eval", "send_result"}

\* The receiver of node n appends the frame it takes in this step to the
\* negotiation queue.
Enqueues(n) ==
    /\ Takes(n)
    /\ negotiation_messages'[n] = Append(negotiation_messages[n], TakenFrame(n))

\* C36: while the negotiation of a side runs, its queue changes only by the
\* receiver appending the frame it took or by the loop handing the head to
\* the evaluation, so frames are processed in arrival order and none is
\* dropped; and the loop never blocks on the event with a frame in the queue,
\* whenever the frame arrived (during an LLM call, during a send, or after the
\* event was set and before it was cleared).
C36_NoFrameLostOrLeftWaiting ==
    [][\A n \in Nodes :
          /\ (NegotiationRunning(n) /\ negotiation_messages'[n] # negotiation_messages[n])
                 => (Enqueues(n) \/ Evaluates(n))
          /\ (NegotiationRunning(n)' /\ negotiation_messages'[n] # negotiation_messages[n])
                 => (Enqueues(n) \/ Evaluates(n))
          /\ BlockedOnEvent(n)' => negotiation_messages'[n] = <<>>]_vars

\* The second frame node n took arrived after the event was cleared, while
\* the first was in an LLM call or its answer in a send (the event is set
\* again), and is now being evaluated.
C36_Witness ==
    \E n \in Nodes :
        /\ pc[n] = "llm_eval"
        /\ Len(taken[n]) = 2
        /\ data[n] = taken[n][2]
        /\ negotiation_messages[n] = <<>>
        /\ negotiation_messages_event[n]
        /\ Len(sent[n]) >= 1

\* C37: with every codeGeneration frame delivered in time, once both sides
\* have called code_generated() (each has built and started to send its own
\* codeGeneration frame) both calls eventually return True, in every
\* order of the calls and of the arrival of the frames, and no call returns
\* False.
C37_BothHandshakesReturnTrue ==
    /\ ((\A n \in Nodes : CodeGenerationSent(n)) ~> (\A n \in Nodes : cg_ret[n] = "True"))
    /\ [](\A n \in Nodes : cg_ret[n] # "False")

\* bob's codeGeneration frame is in alice's queue before alice's wait has
\* started, and bob's call has returned True.
C37_Witness ==
    /\ pc["alice"] = "cg_notify"
    /\ code_generation_messages["alice"] # <<>>
    /\ cg_ret["bob"] = "True"

\* The frame node n pops in this step has status ACCEPTED or REJECTED.
EvaluatesTerminal(n) ==
    /\ Evaluates(n)
    /\ data'[n].status \in {ACCEPTED, REJECTED}

\* C38: once a negotiation has started (round 1 on the side that proposes, 0
\* on the side that waits), the local round changes only in the step that
\* ends an LLM evaluation of an inbound frame with status negotiating, and
\* then by exactly 2, whatever the number of tool calls made before; an
\* inbound frame with status accepted or rejected is answered without an LLM
\* call, with the round and the history left as they are.
C38_RoundAdvancesByTwoInEvaluation ==
    [][\A n \in Nodes :
          /\ (pc[n] # "idle" /\ negotiation_round'[n] # negotiation_round[n]) =>
                 /\ pc[n] = "llm_eval"
                 /\ pc'[n] = "send_result"
                 /\ data[n].status = NEGOTIATING
                 /\ negotiation_round'[n] = negotiation_round[n] + 2
          /\ pc[n] = "idle" => negotiation_round'[n] \in {negotiation_round[n], 0, 1}
          /\ EvaluatesTerminal(n) =>
                 /\ pc'[n] = "send_result"
                 /\ negotiation_round'[n] = negotiation_round[n]
                 /\ negotiation_history'[n] = negotiation_history[n]]_vars

\* The provider has answered its first proposal after two tool calls and is
\* at round 2.
C38_Witness ==
    /\ pc["bob"] = "send_result"
    /\ data["bob"].status = NEGOTIATING
    /\ Len(capability_info_history["bob"]) = 2
    /\ negotiation_round["bob"] = 2
    /\ Len(NegotiationFramesSent("bob")) = 1

\* C39: with both peers running this code over a reliable in-order channel,
\* every protocolNegotiation frame a side takes from its queue for evaluation
\* carries a sequenceId equal to that side's local round + 1, so
\* evaluate_protocol_proposal never finds an invalid round, also in runs in
\* which an LLM call fails.
C39_ProcessedSequenceIdIsRoundPlusOne ==
    [][\A n \in Nodes :
          Evaluates(n) => data'[n].sequenceId = negotiation_round[n] + 1]_vars

\* The LLM call of generate_initial_protocol of node n failed: the first
\* frame of n is the rejected one negotiate_protocol builds from its result.
InitialGenerationFailed(n) ==
    /\ role[n] = REQUESTER
    /\ sent[n] # <<>>
    /\ sent[n][1] = create_protocol_negotiation_message(1, "", "", REJECTED)

\* C40: after a failed initial generation negotiate_protocol has sent exactly
\* one protocolNegotiation frame (rejected, empty candidateProtocols,
\* sequenceId 1), does not wait for a frame of the peer or evaluate one, and
\* what it returns is (False, "").
C40_InitialFailureReturnsAtOnce ==
    \A n \in Nodes :
        InitialGenerationFailed(n) =>
            /\ Len(NegotiationFramesSent(n)) = 1
            /\ pc[n] \notin {"wait", "llm_eval", "send_result", "codegen"}
            /\ Returned(n) => proc_ret[n] = <<FALSE, "">>

====
